---------------------------- MODULE Spec2Model ----------------------------
(***************************************************************************)
(* Model of jonatas-rp/job-postings-monitor.                               *)
(*                                                                         *)
(*   MatcherSpec     src/utils/string_matcher.py  (KeywordMatcher)        *)
(*   ClassifierSpec  src/utils/job_classifier.py  (classify_job)          *)
(*   ConcurrentSpec  invocations of both, interleaved step by step         *)
(*   ScraperSpec     work cycles of a LinkedIn or Startups worker: search,  *)
(*                   duplicate check, keyword filter, CSV                   *)
(*   SearchSpec      one search_jobs call of either scraper                 *)
(*   CacheSpec       src/utils/redis_client.py, two worker processes        *)
(*   WorkerSpec      src/workers/base_worker.py: start(), stop() and the    *)
(*                   run loop of a worker's background processes            *)
(*   ManagerSpec     src/workers/worker_manager.py: run() over two workers  *)
(*   WriterSpec      src/utils/csv_writer.py: safe_write_csv callers on one *)
(*                   file                                                   *)
(*                                                                         *)
(* Python str values are TLA+ strings; a Python list is a sequence, a set  *)
(* a set, a dict a function.  A call either returns a value or raises.     *)
(***************************************************************************)
EXTENDS Integers, Sequences, FiniteSets, TLC

VARIABLES
    keywords,        \* matcher argument: List[str]
    text,            \* matcher argument: str
    case_sensitive,  \* matcher argument: bool
    call,            \* the matcher query that has been applied ("none" before)
    ret,             \* its outcome: Return(value) or Raise(error)
    title,           \* classifier argument: str
    description,     \* classifier argument: str
    op,              \* the classifier function that has been applied
    category_scores, \* classify_job's local category_scores when it returns
    result,          \* its outcome
    calls,           \* concurrent invocations: function, arguments, position, outcome
    frames,          \* their local variables, one frame per invocation
    dictionaries,    \* the module-level CATEGORIES and TAGS of job_classifier.py
    redis,           \* the Redis server: company key -> fields of its hash, time to live
    worker,          \* a worker: its kind, settings, search_count and position in do_work
    site,            \* what the scraped site serves: pages of job elements
    search,          \* search_jobs in progress: start, all_jobs, the list returned
    evaluations,     \* the decisions _evaluate_job_details has taken in this cycle
    csv,             \* the worker's CSV file: None while absent, else its rows
    clients,         \* RedisClient callers: the job, the position and the outcome of the call
    clock,           \* time elapsed, in ticks
    recorded,        \* the postings cached and not expired since (kept for the properties)
    lastCached,      \* per company key: the time since cache_job last set its expiration, the
                     \* ttl it set and the postings cached (kept for the properties)
    workers,         \* BaseWorker objects by name: _running, _stop_event, _process, the
                     \* processes created for it and the start() or stop() call in progress
    manager,         \* the WorkerManager: its position in run() and _shutdown_requested
    writers,         \* callers of safe_write_csv: their data, position and outcome
    csv_file,        \* the CSV file on disk: None while absent, else its rows
    file_lock        \* the holder of the FileLock of that file (0: free)

matcherVars == <<keywords, text, case_sensitive, call, ret>>
classifierVars == <<title, description, op, category_scores, result>>
concurrentVars == <<calls, frames, dictionaries>>
scraperVars == <<worker, site, search, evaluations, csv>>
cacheVars == <<clients, clock, recorded, lastCached>>
lifecycleVars == <<workers, manager>>
writerVars == <<writers, csv_file, file_lock>>
vars == <<keywords, text, case_sensitive, call, ret, title, description, op, category_scores, result,
          calls, frames, dictionaries, redis, worker, site, search, evaluations, csv,
          clients, clock, recorded, lastCached, workers, manager, writers,
          csv_file, file_lock>>

\* what the steps of one component leave alone
outsideMatcher == <<classifierVars, concurrentVars, redis, scraperVars, cacheVars, lifecycleVars, writerVars>>
outsideClassifier == <<matcherVars, concurrentVars, redis, scraperVars, cacheVars, lifecycleVars, writerVars>>
outsideConcurrent == <<matcherVars, classifierVars, redis, scraperVars, cacheVars, lifecycleVars, writerVars>>
outsideScraper == <<matcherVars, classifierVars, concurrentVars, cacheVars, lifecycleVars, writerVars>>
outsideCache == <<matcherVars, classifierVars, concurrentVars, scraperVars, lifecycleVars, writerVars>>
outsideLifecycle == <<matcherVars, classifierVars, concurrentVars, redis, scraperVars, cacheVars,
                      writerVars>>
outsideWriter == <<matcherVars, classifierVars, concurrentVars, redis, scraperVars, cacheVars,
                   lifecycleVars>>

-----------------------------------------------------------------------------
(* Bounds of the explored inputs *)

MaxTextLen == 3
MaxKeywords == 2
MaxDescriptionWords == 2
NumInvocations == 2
MaxResults == 2
MaxCycles == 2
MaxTicks == 2
MaxCalls == 2
MaxStarts == 2
interval == 2
MaxRows == 2

-----------------------------------------------------------------------------
(* Python values *)

None == [none |-> TRUE]
Return(v) == [ok |-> TRUE, val |-> v]
Raise(e) == [ok |-> FALSE, val |-> e]

\* a/b of two ints: the float is kept as the exact fraction
Div(a, b) == [num |-> a, den |-> b]
Float(n) == [num |-> n, den |-> 1]
FloatEq(x, y) == x.num * y.den = y.num * x.den
FloatLt(x, y) == x.num * y.den < y.num * x.den

\* ASCII in code point order: 32..95 and 97..126
AsciiLo == " !\"#$%&'()*+,-./0123456789:;<=>?@ABCDEFGHIJKLMNOPQRSTUVWXYZ[\\]^_"
AsciiHi == "abcdefghijklmnopqrstuvwxyz{|}~"

CharAt(s, i) == SubSeq(s, i, i)

\* ord(c) for a one-character string
Ord(c) ==
    IF \E i \in 1..Len(AsciiLo) : CharAt(AsciiLo, i) = c
    THEN 31 + (CHOOSE i \in 1..Len(AsciiLo) : CharAt(AsciiLo, i) = c)
    ELSE 96 + (CHOOSE i \in 1..Len(AsciiHi) : CharAt(AsciiHi, i) = c)

\* "A".."Z"
Uppercase == {CharAt(AsciiLo, i) : i \in 34..59}

\* str.lower() on one character: "A".."Z" are moved 32 code points up
LowerChar(c) ==
    IF c \in Uppercase
    THEN CharAt(AsciiHi, (CHOOSE i \in 34..59 : CharAt(AsciiLo, i) = c) - 33)
    ELSE c

\* str.lower(), character by character (halving keeps the evaluation shallow)
RECURSIVE Lower(_)
Lower(s) ==
    IF Len(s) = 0 THEN ""
    ELSE IF Len(s) = 1 THEN LowerChar(s)
    ELSE LET half == Len(s) \div 2
         IN Lower(SubSeq(s, 1, half)) \o Lower(SubSeq(s, half + 1, Len(s)))

\* [k.lower() for k in keywords]
LowerAll(ks) == [i \in 1..Len(ks) |-> Lower(ks[i])]

\* Python's `k in t` on strings: the occurrences of k in t, by 1-based start
Occurrences(k, t) == {i \in 1..(Len(t) - Len(k) + 1) : SubSeq(t, i, i + Len(k) - 1) = k}
In(k, t) == \E i \in 1..(Len(t) - Len(k) + 1) : SubSeq(t, i, i + Len(k) - 1) = k

-----------------------------------------------------------------------------
(* ahocorasick.Automaton as string_matcher.py uses it: a dict-like trie of  *)
(* the distinct non-empty keys, each with the value of its last add_word.   *)

Automaton == [kind |-> "EMPTY", words |-> <<>>]

\* add_word(key, value): the empty key is not stored; a repeated key keeps
\* one entry, whose value is replaced
add_word(A, key, value) ==
    IF key = "" THEN A
    ELSE [kind |-> "TRIE",
          words |-> [k \in DOMAIN A.words \cup {key} |->
                        IF k = key THEN value ELSE A.words[k]]]

\* make_automaton(): converts a trie; an automaton without keys stays EMPTY
make_automaton(A) == IF A.kind = "TRIE" THEN [A EXCEPT !.kind = "AHOCORASICK"] ELSE A

\* for idx, keyword in enumerate(search_keywords): automaton.add_word(keyword, (idx, keyword))
RECURSIVE AddWords(_, _, _)
AddWords(A, search_keywords, idx) ==
    IF idx >= Len(search_keywords) THEN A
    ELSE AddWords(add_word(A, search_keywords[idx + 1], <<idx, search_keywords[idx + 1]>>),
                  search_keywords, idx + 1)

BuildAutomaton(search_keywords) == make_automaton(AddWords(Automaton, search_keywords, 0))

\* the occurrences <<e, key>> of the keys in t, e the 1-based end position
KeyOccurrences(A, t) ==
    {m \in (1..Len(t)) \X DOMAIN A.words :
        Len(m[2]) <= m[1] /\ SubSeq(t, m[1] - Len(m[2]) + 1, m[1]) = m[2]}

\* the order in which the scan reports two occurrences: by end position,
\* and at one end position the longer key first
ReportedBefore(m, n) == m[1] < n[1] \/ (m[1] = n[1] /\ Len(m[2]) > Len(n[2]))

\* automaton.iter(text): (end_index, value) for every occurrence of a key
IterFrom(A, t) ==
    LET occ == KeyOccurrences(A, t)
        nth(i) == CHOOSE m \in occ : Cardinality({n \in occ : ReportedBefore(n, m)}) = i - 1
    IN [i \in 1..Cardinality(occ) |-> <<nth(i)[1] - 1, A.words[nth(i)[2]]>>]

iter(A, t) ==
    IF A.kind # "AHOCORASICK" THEN Raise("AttributeError") ELSE Return(IterFrom(A, t))

-----------------------------------------------------------------------------
(* KeywordMatcher *)

\* mutant: the keywords are indexed as given
search_keywords_NotLowered(ks, t, cs) == ks

search_text(ks, t, cs) == IF cs THEN t ELSE Lower(t)
search_keywords(ks, t, cs) == IF cs THEN ks ELSE LowerAll(ks)

\* found_keywords.add(keyword) for every match
found_keywords(matches) == {matches[i][2][2] : i \in 1..Len(matches)}

\* mutant: the empty-text check comes before the empty-list check
match_all_keywords_TextFirst(ks, t, cs) ==
    IF t = "" THEN Return(FALSE)
    ELSE IF ks = <<>> THEN Return(TRUE)
    ELSE LET it == iter(BuildAutomaton(search_keywords(ks, t, cs)), search_text(ks, t, cs))
         IN IF ~it.ok THEN it
            ELSE Return(Cardinality(found_keywords(it.val)) = Len(ks))

match_all_keywords(ks, t, cs) ==
    IF ks = <<>> THEN Return(TRUE)
    ELSE IF t = "" THEN Return(FALSE)
    ELSE LET sk == search_keywords(ks, t, cs)
             it == iter(BuildAutomaton(sk), search_text(ks, t, cs))
         IN IF ~it.ok THEN it
            ELSE Return(Cardinality(found_keywords(it.val)) = Len(sk))

\* mutant: the empty text is answered like the empty keyword list
match_any_keywords_EmptyTextTrue(ks, t, cs) ==
    IF ks = <<>> THEN Return(TRUE)
    ELSE IF t = "" THEN Return(TRUE)
    ELSE LET it == iter(BuildAutomaton(search_keywords(ks, t, cs)), search_text(ks, t, cs))
         IN IF ~it.ok THEN it
            ELSE Return(Len(it.val) > 0)

match_any_keywords(ks, t, cs) ==
    IF ks = <<>> THEN Return(TRUE)
    ELSE IF t = "" THEN Return(FALSE)
    ELSE LET sk == search_keywords(ks, t, cs)
             it == iter(BuildAutomaton(sk), search_text(ks, t, cs))
         IN IF ~it.ok THEN it
            ELSE Return(Len(it.val) > 0)

\* matches[keyword] += 1 / matches[keyword] = 1, match by match
RECURSIVE CountMatches(_, _, _)
CountMatches(matches, seq, i) ==
    IF i > Len(seq) THEN matches
    ELSE LET keyword == seq[i][2][2]
         IN CountMatches([k \in DOMAIN matches \cup {keyword} |->
                            IF k = keyword
                            THEN (IF keyword \in DOMAIN matches THEN matches[keyword] + 1 ELSE 1)
                            ELSE matches[k]],
                         seq, i + 1)

get_matched_keywords(ks, t, cs) ==
    IF ks = <<>> \/ t = "" THEN Return(<<>>)
    ELSE LET sk == search_keywords(ks, t, cs)
             it == iter(BuildAutomaton(sk), search_text(ks, t, cs))
         IN IF ~it.ok THEN it
            ELSE Return(CountMatches(<<>>, it.val, 1))

get_match_score(ks, t, cs) ==
    IF ks = <<>> THEN Return(Float(1))
    ELSE IF t = "" THEN Return(Float(0))
    ELSE LET sk == search_keywords(ks, t, cs)
             it == iter(BuildAutomaton(sk), search_text(ks, t, cs))
         IN IF ~it.ok THEN it
            ELSE Return(Div(Cardinality(found_keywords(it.val)), Len(sk)))

-----------------------------------------------------------------------------
(* Inputs of the matcher *)

Alphabet == {"a", "A", "b"}

RECURSIVE StringsUpTo(_)
StringsUpTo(n) ==
    IF n = 0 THEN {""}
    ELSE LET S == StringsUpTo(n - 1) IN S \cup {s \o c : s \in S, c \in Alphabet}

\* short texts, and texts with repeated and overlapping occurrences
Texts == StringsUpTo(MaxTextLen) \cup {"aaa", "abab", "Abba"}

KeywordPool == {"", "a", "A", "b", "ab", "aa", "ba"}

RECURSIVE ListsUpTo(_, _)
ListsUpTo(S, n) ==
    IF n = 0 THEN {<<>>}
    ELSE LET L == ListsUpTo(S, n - 1) IN L \cup {Append(l, x) : l \in L, x \in S}

KeywordLists == ListsUpTo(KeywordPool, MaxKeywords)

\* the examples of the docstrings, as <<keywords, text>>
Examples ==
    {<<<<"python", "docker", "kubernetes">>,
       "We need Python developer with Docker and Kubernetes experience">>,
     <<<<"python", "docker">>, "Python and Docker are great. I love Python!">>,
     <<<<"python", "docker", "kubernetes", "aws">>, "Python and Docker experience required">>,
     <<<<"python", "docker">>, "Python developer with Docker experience">>,
     <<<<"Python", "python">>, "python">>,
     <<<<"go">>, "gopher">>}

MatcherInputs == (KeywordLists \X Texts) \cup Examples

-----------------------------------------------------------------------------
(* MatcherSpec: one query of the matcher on inputs drawn at Init *)

\* no concurrent invocation exists
ConcurrentIdle ==
    /\ calls = <<>>
    /\ frames = <<>>
    /\ dictionaries = None

\* no worker, no Redis client
ScraperIdle ==
    /\ worker = None
    /\ site = <<>>
    /\ search = None
    /\ evaluations = {}
    /\ csv = None

CacheIdle ==
    /\ clients = <<>>
    /\ clock = 0
    /\ recorded = {}
    /\ lastCached = {}

RedisIdle == redis = None

\* no worker object, no manager
LifecycleIdle ==
    /\ workers = <<>>
    /\ manager = None

\* no caller of safe_write_csv
WriterIdle ==
    /\ writers = <<>>
    /\ csv_file = None
    /\ file_lock = 0

ClassifierIdle ==
    /\ title = ""
    /\ description = ""
    /\ op = "none"
    /\ category_scores = None
    /\ result = None

MatcherInit ==
    /\ \E input \in MatcherInputs :
          /\ keywords = input[1]
          /\ text = input[2]
    /\ case_sensitive \in BOOLEAN
    /\ call = "none"
    /\ ret = None
    /\ ClassifierIdle
    /\ ConcurrentIdle
    /\ ScraperIdle /\ CacheIdle /\ RedisIdle /\ LifecycleIdle /\ WriterIdle

MatchAll ==
    /\ call = "none"
    /\ call' = "match_all_keywords"
    /\ ret' = match_all_keywords(keywords, text, case_sensitive)
    /\ UNCHANGED <<keywords, text, case_sensitive, outsideMatcher>>

MatchAny ==
    /\ call = "none"
    /\ call' = "match_any_keywords"
    /\ ret' = match_any_keywords(keywords, text, case_sensitive)
    /\ UNCHANGED <<keywords, text, case_sensitive, outsideMatcher>>

GetMatchedKeywords ==
    /\ call = "none"
    /\ call' = "get_matched_keywords"
    /\ ret' = get_matched_keywords(keywords, text, case_sensitive)
    /\ UNCHANGED <<keywords, text, case_sensitive, outsideMatcher>>

GetMatchScore ==
    /\ call = "none"
    /\ call' = "get_match_score"
    /\ ret' = get_match_score(keywords, text, case_sensitive)
    /\ UNCHANGED <<keywords, text, case_sensitive, outsideMatcher>>

MatcherNext == MatchAll \/ MatchAny \/ GetMatchedKeywords \/ GetMatchScore

MatcherSpec == MatcherInit /\ [][MatcherNext]_vars

-----------------------------------------------------------------------------
(* job_classifier.py: the dictionaries *)

\* CATEGORIES.items(), in the order of the dict literal
CategoryOrder == <<"Frontend", "Backend", "Fullstack", "DevOps", "AI">>

CATEGORIES ==
    [c \in {"Frontend", "Backend", "Fullstack", "DevOps", "AI"} |->
        CASE c = "Frontend" ->
               [title_keywords |->
                    <<"frontend", "front-end", "front end", "frontend", "ui developer",
                      "ui engineer", "react developer", "vue developer",
                      "angular developer", "web developer", "javascript developer",
                      "typescript developer">>,
                description_keywords |->
                    <<"frontend", "front-end", "user interface", "ui/ux",
                      "responsive design", "css", "html", "dom", "browser">>]
              [] c = "Backend" ->
               [title_keywords |->
                    <<"backend", "back-end", "back end", "server-side", "api developer",
                      "python developer", "java developer", "golang developer",
                      "go developer", "node developer", "nodejs developer",
                      ".net developer", "c# developer">>,
                description_keywords |->
                    <<"backend", "back-end", "server-side", "api", "microservices",
                      "database", "sql", "rest api", "graphql">>]
              [] c = "Fullstack" ->
               [title_keywords |->
                    <<"fullstack", "full-stack", "full stack", "software engineer",
                      "software developer", "web developer">>,
                description_keywords |->
                    <<"fullstack", "full-stack", "full stack", "end-to-end",
                      "frontend and backend", "front-end and back-end">>]
              [] c = "DevOps" ->
               [title_keywords |->
                    <<"devops", "sre", "site reliability", "platform engineer",
                      "infrastructure engineer", "cloud engineer", "systems engineer",
                      "devsecops", "mlops", "dataops">>,
                description_keywords |->
                    <<"devops", "ci/cd", "continuous integration", "continuous deployment",
                      "infrastructure as code", "terraform", "ansible", "kubernetes",
                      "docker", "containerization", "orchestration", "monitoring">>]
              [] c = "AI" ->
               [title_keywords |->
                    <<"ai engineer", "ml engineer", "machine learning", "data scientist",
                      "deep learning", "nlp engineer", "computer vision", "llm engineer",
                      "ai/ml", "artificial intelligence", "generative ai", "genai">>,
                description_keywords |->
                    <<"machine learning", "deep learning", "neural network", "tensorflow",
                      "pytorch", "nlp", "natural language processing", "computer vision",
                      "llm", "large language model", "generative ai", "transformers",
                      "hugging face", "openai", "langchain", "langgraph", "rag",
                      "retrieval augmented", "fine-tuning", "model training">>]]

\* TAGS.items(): the tag groups in the order of the dict literal, each the
\* sequence of its <<tag_name, keywords>> items
TAGS ==
    <<\* languages
      <<<<"Python", <<"python", "py">>>>,
        <<"JavaScript", <<"javascript", "js">>>>,
        <<"TypeScript", <<"typescript", "ts">>>>,
        <<"Java", <<"java", "jvm">>>>,
        <<"Go", <<"golang", "go">>>>,
        <<"C++", <<"c++", "cpp">>>>,
        <<"C#", <<"c#", "csharp", ".net">>>>,
        <<"Rust", <<"rust", "rustlang">>>>,
        <<"Ruby", <<"ruby", "rails">>>>,
        <<"PHP", <<"php", "laravel">>>>,
        <<"Scala", <<"scala">>>>,
        <<"Kotlin", <<"kotlin">>>>,
        <<"Swift", <<"swift">>>>>>,
      \* cloud
      <<<<"AWS", <<"aws", "amazon web services", "ec2", "s3", "lambda", "dynamodb", "eks", "ecs">>>>,
        <<"Azure", <<"azure", "microsoft azure", "azure devops">>>>,
        <<"GCP", <<"gcp", "google cloud">>>>,
        <<"Vercel", <<"vercel">>>>,
        <<"Cloudflare", <<"cloudflare", "cloudflare workers">>>>>>,
      \* frameworks
      <<<<"React", <<"react", "reactjs", "react.js">>>>,
        <<"Next.js", <<"next.js", "nextjs", "next js">>>>,
        <<"Vue", <<"vue", "vuejs", "vue.js", "nuxt">>>>,
        <<"Angular", <<"angular", "angularjs">>>>,
        <<"Svelte", <<"svelte", "sveltekit">>>>,
        <<"FastAPI", <<"fastapi", "fast api">>>>,
        <<"Django", <<"django">>>>,
        <<"Flask", <<"flask">>>>,
        <<"Express", <<"express", "expressjs", "express.js">>>>,
        <<"NestJS", <<"nestjs", "nest.js">>>>,
        <<".NET", <<".net", "dotnet", "asp.net">>>>,
        <<"Spring Boot", <<"spring boot", "springboot", "spring framework">>>>,
        <<"Rails", <<"ruby on rails", "rails">>>>,
        <<"Laravel", <<"laravel">>>>>>,
      \* ai_tools
      <<<<"LangChain", <<"langchain", "lang chain">>>>,
        <<"LangGraph", <<"langgraph", "lang graph">>>>,
        <<"TensorFlow", <<"tensorflow", "tf">>>>,
        <<"PyTorch", <<"pytorch", "torch">>>>,
        <<"Hugging Face", <<"hugging face", "huggingface", "transformers">>>>,
        <<"OpenAI", <<"openai", "gpt-4", "gpt-3", "chatgpt">>>>,
        <<"LlamaIndex", <<"llamaindex", "llama index">>>>,
        <<"Scikit-learn", <<"scikit-learn", "sklearn">>>>,
        <<"Pandas", <<"pandas">>>>,
        <<"NumPy", <<"numpy">>>>>>,
      \* databases
      <<<<"PostgreSQL", <<"postgresql", "postgres", "psql">>>>,
        <<"MySQL", <<"mysql">>>>,
        <<"MongoDB", <<"mongodb", "mongo">>>>,
        <<"Redis", <<"redis">>>>,
        <<"Elasticsearch", <<"elasticsearch", "elastic search", "elk">>>>,
        <<"DynamoDB", <<"dynamodb">>>>,
        <<"Cassandra", <<"cassandra">>>>>>,
      \* devops_tools
      <<<<"Docker", <<"docker", "containerization">>>>,
        <<"Kubernetes", <<"kubernetes", "k8s">>>>,
        <<"Terraform", <<"terraform", "iac">>>>,
        <<"Ansible", <<"ansible">>>>,
        <<"Jenkins", <<"jenkins">>>>,
        <<"GitHub Actions", <<"github actions", "gh actions">>>>,
        <<"GitLab CI", <<"gitlab ci", "gitlab-ci">>>>,
        <<"ArgoCD", <<"argocd", "argo cd">>>>,
        <<"Helm", <<"helm", "helm charts">>>>,
        <<"Prometheus", <<"prometheus">>>>,
        <<"Grafana", <<"grafana">>>>,
        <<"DataDog", <<"datadog">>>>>>,
      \* other
      <<<<"GraphQL", <<"graphql", "graph ql">>>>,
        <<"REST API", <<"rest api", "restful">>>>,
        <<"gRPC", <<"grpc", "g-rpc">>>>,
        <<"Kafka", <<"kafka", "apache kafka">>>>,
        <<"RabbitMQ", <<"rabbitmq", "rabbit mq">>>>,
        <<"WebSocket", <<"websocket", "websockets", "ws">>>>,
        <<"Microservices", <<"microservices", "micro-services">>>>,
        <<"Serverless", <<"serverless", "faas">>>>,
        <<"Agile", <<"agile", "scrum", "kanban">>>>,
        <<"Git", <<"git", "github", "gitlab", "bitbucket">>>>>>>>

-----------------------------------------------------------------------------
(* job_classifier.py: helpers *)

\* str.strip(): the space is the whitespace of the modelled character set
Strip(s) ==
    LET kept == {i \in 1..Len(s) : CharAt(s, i) # " "}
    IN IF kept = {} THEN ""
       ELSE SubSeq(s, CHOOSE i \in kept : \A j \in kept : i <= j,
                      CHOOSE i \in kept : \A j \in kept : j <= i)

\* text.lower().strip()
normalize_text(t) == Strip(Lower(t))

StartsWith(s, prefix) == Len(prefix) <= Len(s) /\ SubSeq(s, 1, Len(prefix)) = prefix
EndsWith(s, suffix) == Len(suffix) <= Len(s) /\ SubSeq(s, Len(s) - Len(suffix) + 1, Len(s)) = suffix

\* keyword.startswith(r"\b")
IsRegex(keyword) == StartsWith(keyword, "\\b")

\* \w of the re module on the modelled character set
IsWordChar(c) ==
    LET n == Ord(c)
    IN (n >= 48 /\ n <= 57) \/ (n >= 65 /\ n <= 90) \/ (n >= 97 /\ n <= 122) \/ n = 95

\* \b between positions i-1 and i of t (1-based)
WordBoundary(t, i) ==
    (i > 1 /\ IsWordChar(CharAt(t, i - 1))) # (i <= Len(t) /\ IsWordChar(CharAt(t, i)))

\* re.search(keyword, text, re.IGNORECASE) for a pattern \b<literal> or
\* \b<literal>\b, the patterns the branch is written for
re_search(pattern, t) ==
    LET body == SubSeq(pattern, 3, Len(pattern))
        closed == EndsWith(body, "\\b")
        lit == Lower(IF closed THEN SubSeq(body, 1, Len(body) - 2) ELSE body)
        low == Lower(t)
    IN \E i \in Occurrences(lit, low) :
          /\ WordBoundary(low, i)
          /\ closed => WordBoundary(low, i + Len(lit))

\* one keyword against the text, as both loops test it
keyword_matches(keyword, t) ==
    IF IsRegex(keyword) THEN re_search(keyword, t) ELSE In(Lower(keyword), t)

\* _match_keywords(text, keywords): matches += 1 for every list entry that
\* matches
match_keywords(t, kws) == Cardinality({i \in 1..Len(kws) : keyword_matches(kws[i], t)})

\* a < b in Python's string order: by code point at the first difference
StrLess(a, b) ==
    LET n == IF Len(a) < Len(b) THEN Len(a) ELSE Len(b)
        diff == {i \in 1..n : CharAt(a, i) # CharAt(b, i)}
        first == CHOOSE i \in diff : \A j \in diff : i <= j
    IN IF diff = {} THEN Len(a) < Len(b)
       ELSE Ord(CharAt(a, first)) < Ord(CharAt(b, first))

\* sorted(list of str): ascending, equal items in their order
sorted(l) ==
    LET before(j, i) == StrLess(l[j], l[i]) \/ (l[j] = l[i] /\ j < i)
        nth(k) == CHOOSE i \in 1..Len(l) : Cardinality({j \in 1..Len(l) : before(j, i)}) = k - 1
    IN [k \in 1..Len(l) |-> l[nth(k)]]

-----------------------------------------------------------------------------
(* job_classifier.py: extract_tags and classify_job *)

\* for keyword in keywords: ... break at the first keyword that matches
AnyKeyword(kws, t) == \E i \in 1..Len(kws) : keyword_matches(kws[i], t)

\* for tag_name, keywords in tags.items(): matched_tags after the tags of
\* one group, given matched_tags before the group
TagLoop(tags, t, before) ==
    LET seen(name) == \E i \in 1..Len(before) : before[i] = name
        hit(i) == AnyKeyword(tags[i][2], t)
        added == {i \in 1..Len(tags) :
                    /\ hit(i)
                    /\ ~seen(tags[i][1])
                    /\ ~\E j \in 1..(i - 1) : hit(j) /\ tags[j][1] = tags[i][1]}
        nth(k) == CHOOSE i \in added : Cardinality({j \in added : j < i}) = k - 1
    IN before \o [k \in 1..Cardinality(added) |-> tags[nth(k)][1]]

\* for tag_group, tags in TAGS.items(): for tag_name, keywords in tags.items():
\* the items the nested loops visit, in their order
TagItems == TAGS[1] \o TAGS[2] \o TAGS[3] \o TAGS[4] \o TAGS[5] \o TAGS[6] \o TAGS[7]

\* mutant: the tags are returned in the order the loops found them
extract_tags_Unsorted(ti, de) ==
    TagLoop(TagItems, normalize_text(ti \o " " \o de), <<>>)

\* mutant: title and description are joined without the space
extract_tags_NoSeparator(ti, de) ==
    sorted(TagLoop(TagItems, normalize_text(ti \o de), <<>>))

extract_tags(ti, de) ==
    LET combined_text == normalize_text(ti \o " " \o de)
    IN sorted(TagLoop(TagItems, combined_text, <<>>))

\* mutant: a title match weighs as much as a description match
CategoryScores_TitleWeightOne(title_lower, description_lower) ==
    [c \in DOMAIN CATEGORIES |->
        match_keywords(title_lower, CATEGORIES[c].title_keywords)
        + match_keywords(description_lower, CATEGORIES[c].description_keywords)]

\* the loop over CATEGORIES.items() that fills category_scores
CategoryScores(title_lower, description_lower) ==
    [c \in DOMAIN CATEGORIES |->
        match_keywords(title_lower, CATEGORIES[c].title_keywords) * 3
        + match_keywords(description_lower, CATEGORIES[c].description_keywords)]

\* mutant: the last key with the greatest score
best_category_Last(scores) ==
    CategoryOrder[CHOOSE i \in 1..Len(CategoryOrder) :
        /\ \A j \in 1..Len(CategoryOrder) : scores[CategoryOrder[j]] <= scores[CategoryOrder[i]]
        /\ \A j \in (i + 1)..Len(CategoryOrder) : scores[CategoryOrder[j]] < scores[CategoryOrder[i]]]

\* max(category_scores, key=category_scores.get): the first key, in the
\* order of the dict, whose score no other key exceeds
best_category(scores) ==
    CategoryOrder[CHOOSE i \in 1..Len(CategoryOrder) :
        /\ \A j \in 1..Len(CategoryOrder) : scores[CategoryOrder[j]] <= scores[CategoryOrder[i]]
        /\ \A j \in 1..(i - 1) : scores[CategoryOrder[j]] < scores[CategoryOrder[i]]]

\* ClassificationResult(category, tags, confidence)
ClassificationResult(category, tags, confidence) ==
    [category |-> category, tags |-> tags, confidence |-> confidence]

\* mutant: the confidence is not capped at 1.0
classify_job_NoCap(ti, de) ==
    LET scores_nc == CategoryScores(normalize_text(ti), normalize_text(de))
        winner_nc == best_category(scores_nc)
    IN IF scores_nc[winner_nc] < 1
       THEN ClassificationResult("Fullstack", extract_tags(ti, de), Div(3, 10))
       ELSE ClassificationResult(winner_nc, extract_tags(ti, de), Div(scores_nc[winner_nc], 10))

classify_job(ti, de) ==
    LET all_scores == CategoryScores(normalize_text(ti), normalize_text(de))
        winner == best_category(all_scores)
        best_score == all_scores[winner]
        found_tags == extract_tags(ti, de)
    IN IF best_score < 1
       THEN ClassificationResult("Fullstack", found_tags, Div(3, 10))
       ELSE ClassificationResult(winner, found_tags,
                IF FloatLt(Float(1), Div(best_score, 10)) THEN Float(1)
                ELSE Div(best_score, 10))

-----------------------------------------------------------------------------
(* Inputs of the classifier *)

Titles ==
    {"", "Engineer", "Frontend Developer", "Senior Backend Engineer", "Web Developer",
     "DevOps / Backend Engineer", "ML Engineer"}

DescriptionWords == {"API", "SQL", "Docker", "CSS", "Python"}

RECURSIVE Join(_)
Join(words) ==
    IF words = <<>> THEN ""
    ELSE IF Len(words) = 1 THEN words[1]
    ELSE words[1] \o " " \o Join(Tail(words))

Descriptions == {Join(ws) : ws \in ListsUpTo(DescriptionWords, MaxDescriptionWords)}

\* postings of the documented scenarios, as <<title, description>>
Postings ==
    {<<"Senior Backend Engineer", "We use Python, Docker and Kubernetes in production">>,
     <<"Frontend Developer", "REST API, SQL database and GraphQL microservices">>,
     <<"Senior Frontend UI Engineer", "HTML, CSS and the DOM in the browser">>,
     <<" Data Engineer ", "C++, C# and .NET on AWS">>,
     <<"Tech Lead - Java", "Script automation with Bash">>,
     <<"Backend Engineer", "HTML, CSS and browser testing">>,
     <<"Backend Engineer", "Docker, Kubernetes, Terraform and Ansible">>,
     <<"Platform Engineer", "K8s, IaC and Postgres; Python/Py">>}

ClassifierInputs == (Titles \X Descriptions) \cup Postings

-----------------------------------------------------------------------------
(* ClassifierSpec: one call of the classifier on inputs drawn at Init *)

MatcherIdle ==
    /\ keywords = <<>>
    /\ text = ""
    /\ case_sensitive = FALSE
    /\ call = "none"
    /\ ret = None

ClassifierInit ==
    /\ \E input \in ClassifierInputs :
          /\ title = input[1]
          /\ description = input[2]
    /\ op = "none"
    /\ category_scores = None
    /\ result = None
    /\ MatcherIdle
    /\ ConcurrentIdle
    /\ ScraperIdle /\ CacheIdle /\ RedisIdle /\ LifecycleIdle /\ WriterIdle

ClassifyJob ==
    /\ op = "none"
    /\ op' = "classify_job"
    /\ category_scores' = CategoryScores(normalize_text(title), normalize_text(description))
    /\ result' = Return(classify_job(title, description))
    /\ UNCHANGED <<title, description, outsideClassifier>>

ExtractTags ==
    /\ op = "none"
    /\ op' = "extract_tags"
    /\ result' = Return(extract_tags(title, description))
    /\ UNCHANGED <<title, description, category_scores, outsideClassifier>>

ClassifierNext == ClassifyJob \/ ExtractTags

ClassifierSpec == ClassifierInit /\ [][ClassifierNext]_vars

-----------------------------------------------------------------------------
(* ConcurrentSpec: NumInvocations invocations of the matcher and of the      *)
(* classifier, each running its statements one step at a time, interleaved  *)
(* with the steps of the others.                                             *)

Invocations == 1..NumInvocations

\* the invocations, as <<function, arguments>>
ConcurrentInputs ==
    {<<"match_all_keywords", <<<<"a", "b">>, "ab", FALSE>>>>,
     <<"match_any_keywords", <<<<>>, "ab", FALSE>>>>,
     <<"get_matched_keywords", <<<<"A">>, "aa", FALSE>>>>,
     <<"classify_job", <<"Backend Engineer", "Python, Docker">>>>,
     <<"classify_job", <<"Frontend Dev", "REST API, SQL, GraphQL">>>>}

MatcherFunctions ==
    {"match_all_keywords", "match_any_keywords", "get_match_score", "get_matched_keywords"}

\* the local variables of one invocation, before it has assigned any
NewFrame ==
    [search_text |-> None, search_keywords |-> <<>>, automaton |-> Automaton, idx |-> 0,
     title_lower |-> None, description_lower |-> None, scores |-> <<>>, next |-> 1]

\* mutant: the local variables live in one place shared by all invocations
FrameOf_Shared(i) == 1

\* the frame that holds the local variables of invocation i: its own
FrameOf(i) == i

\* the query of the matcher with the given name
Query(name, ks, t, cs) ==
    CASE name = "match_all_keywords" -> match_all_keywords(ks, t, cs)
      [] name = "match_any_keywords" -> match_any_keywords(ks, t, cs)
      [] name = "get_matched_keywords" -> get_matched_keywords(ks, t, cs)
      [] name = "get_match_score" -> get_match_score(ks, t, cs)

\* what an invocation returns when it runs alone, from its first statement
\* to its last with no other invocation in between
Alone(fn, args) ==
    IF fn = "classify_job" THEN Return(classify_job(args[1], args[2]))
    ELSE Query(fn, args[1], args[2], args[3])

\* calls[i].alone only records, for the properties, the result of running
\* alone
ConcurrentInit ==
    /\ calls \in [Invocations ->
                    {[fn |-> input[1], args |-> input[2], pc |-> "start", result |-> None,
                      alone |-> Alone(input[1], input[2])] :
                        input \in ConcurrentInputs}]
    /\ frames = [f \in Invocations |-> NewFrame]
    /\ dictionaries = [CATEGORIES |-> CATEGORIES, TAGS |-> TagItems]
    /\ MatcherIdle
    /\ ClassifierIdle
    /\ ScraperIdle /\ CacheIdle /\ RedisIdle /\ LifecycleIdle /\ WriterIdle

\* invocation i moves to pc, with the outcome r when it returns
Step(i, pc, r) ==
    calls' = [calls EXCEPT ![i].pc = pc, ![i].result = r]

\* the checks on empty arguments that open each query: the value returned
\* early, or None to go on
EarlyReturn(fn, ks, t) ==
    CASE fn \in {"match_all_keywords", "match_any_keywords"} ->
            IF ks = <<>> THEN Return(TRUE) ELSE IF t = "" THEN Return(FALSE) ELSE None
      [] fn = "get_matched_keywords" ->
            IF ks = <<>> \/ t = "" THEN Return(<<>>) ELSE None
      [] fn = "get_match_score" ->
            IF ks = <<>> THEN Return(Float(1)) ELSE IF t = "" THEN Return(Float(0)) ELSE None

\* the loop over automaton.iter(search_text) and the return statement
ScanAndReturn(fn, A, st, sk) ==
    LET scan == iter(A, st)
    IN IF ~scan.ok THEN scan
       ELSE CASE fn = "match_all_keywords" ->
                    Return(Cardinality(found_keywords(scan.val)) = Len(sk))
              [] fn = "match_any_keywords" -> Return(Len(scan.val) > 0)
              [] fn = "get_matched_keywords" -> Return(CountMatches(<<>>, scan.val, 1))
              [] fn = "get_match_score" ->
                    Return(Div(Cardinality(found_keywords(scan.val)), Len(sk)))

\* a query of the matcher up to `automaton = ahocorasick.Automaton()`
MatcherEnter(i) ==
    /\ calls[i].pc = "start"
    /\ calls[i].fn \in MatcherFunctions
    /\ LET ks == calls[i].args[1]
           t == calls[i].args[2]
           cs == calls[i].args[3]
           early == EarlyReturn(calls[i].fn, ks, t)
       IN IF early # None
          THEN /\ Step(i, "done", early)
               /\ UNCHANGED frames
          ELSE /\ Step(i, "add_word", None)
               /\ frames' = [frames EXCEPT ![FrameOf(i)] =
                                [@ EXCEPT !.search_text = search_text(ks, t, cs),
                                          !.search_keywords = search_keywords(ks, t, cs),
                                          !.automaton = Automaton,
                                          !.idx = 0]]
    /\ UNCHANGED <<dictionaries, outsideConcurrent>>

\* one turn of `for idx, keyword in enumerate(search_keywords)`
MatcherAddWord(i) ==
    /\ calls[i].pc = "add_word"
    /\ LET f == frames[FrameOf(i)]
       IN /\ f.idx < Len(f.search_keywords)
          /\ frames' = [frames EXCEPT ![FrameOf(i)] =
                           [@ EXCEPT !.automaton = add_word(f.automaton, f.search_keywords[f.idx + 1],
                                                            <<f.idx, f.search_keywords[f.idx + 1]>>),
                                     !.idx = f.idx + 1]]
    /\ Step(i, "add_word", None)
    /\ UNCHANGED <<dictionaries, outsideConcurrent>>

\* automaton.make_automaton(), after the loop
MatcherMakeAutomaton(i) ==
    /\ calls[i].pc = "add_word"
    /\ frames[FrameOf(i)].idx >= Len(frames[FrameOf(i)].search_keywords)
    /\ frames' = [frames EXCEPT ![FrameOf(i)].automaton = make_automaton(@)]
    /\ Step(i, "iter", None)
    /\ UNCHANGED <<dictionaries, outsideConcurrent>>

\* the scan of the text and the return
MatcherScan(i) ==
    /\ calls[i].pc = "iter"
    /\ LET f == frames[FrameOf(i)]
       IN Step(i, "done", ScanAndReturn(calls[i].fn, f.automaton, f.search_text, f.search_keywords))
    /\ UNCHANGED <<frames, dictionaries, outsideConcurrent>>


\* category_scores[category] = score on a dict kept as its items, in
\* insertion order
DictSet(items, key, value) ==
    IF \E n \in 1..Len(items) : items[n][1] = key
    THEN [n \in 1..Len(items) |-> IF items[n][1] = key THEN <<key, value>> ELSE items[n]]
    ELSE Append(items, <<key, value>>)

\* max(category_scores, key=category_scores.get): the first key of the
\* greatest value; of an empty dict, ValueError
MaxKey(items) ==
    IF items = <<>> THEN Raise("ValueError")
    ELSE Return(items[CHOOSE n \in 1..Len(items) :
                         /\ \A m \in 1..Len(items) : items[m][2] <= items[n][2]
                         /\ \A m \in 1..(n - 1) : items[m][2] < items[n][2]][1])

DictGet(items, key) == items[CHOOSE n \in 1..Len(items) : items[n][1] = key][2]

\* classify_job up to `category_scores = {}`
ClassifierEnter(i) ==
    /\ calls[i].pc = "start"
    /\ calls[i].fn = "classify_job"
    /\ frames' = [frames EXCEPT ![FrameOf(i)] =
                     [@ EXCEPT !.title_lower = normalize_text(calls[i].args[1]),
                               !.description_lower = normalize_text(calls[i].args[2]),
                               !.scores = <<>>,
                               !.next = 1]]
    /\ Step(i, "score", None)
    /\ UNCHANGED <<dictionaries, outsideConcurrent>>

\* mutant: the matching loop consumes the lists it is given
KeywordListsAfterMatch_Consumed(kws) == [title_keywords |-> <<>>, description_keywords |-> <<>>]

\* the two keyword lists of a category after _match_keywords has gone
\* through them: it only reads them
KeywordListsAfterMatch(kws) == kws

\* one turn of `for category, keywords in CATEGORIES.items()`
ClassifierScore(i) ==
    /\ calls[i].pc = "score"
    /\ LET f == frames[FrameOf(i)]
           category == CategoryOrder[f.next]
           kws == dictionaries.CATEGORIES[category]
           score == match_keywords(f.title_lower, kws.title_keywords) * 3
                    + match_keywords(f.description_lower, kws.description_keywords)
       IN /\ f.next <= Len(CategoryOrder)
          /\ frames' = [frames EXCEPT ![FrameOf(i)] =
                           [@ EXCEPT !.scores = DictSet(f.scores, category, score),
                                     !.next = f.next + 1]]
          /\ dictionaries' = [dictionaries EXCEPT !.CATEGORIES[category] = KeywordListsAfterMatch(kws)]
    /\ Step(i, "score", None)
    /\ UNCHANGED outsideConcurrent

\* the rest of classify_job: the best category, the confidence, the tags
ClassifierFinish(i) ==
    /\ calls[i].pc = "score"
    /\ LET f == frames[FrameOf(i)]
           best == MaxKey(f.scores)
           best_score == DictGet(f.scores, best.val)
           tags == sorted(TagLoop(dictionaries.TAGS,
                                  normalize_text(calls[i].args[1] \o " " \o calls[i].args[2]),
                                  <<>>))
       IN /\ f.next > Len(CategoryOrder)
          /\ Step(i, "done",
                  IF ~best.ok THEN best
                  ELSE IF best_score < 1
                  THEN Return(ClassificationResult("Fullstack", tags, Div(3, 10)))
                  ELSE Return(ClassificationResult(best.val, tags,
                                  IF FloatLt(Float(1), Div(best_score, 10)) THEN Float(1)
                                  ELSE Div(best_score, 10))))
    /\ UNCHANGED <<frames, dictionaries, outsideConcurrent>>

ConcurrentNext ==
    \E i \in Invocations :
        \/ MatcherEnter(i)
        \/ MatcherAddWord(i)
        \/ MatcherMakeAutomaton(i)
        \/ MatcherScan(i)
        \/ ClassifierEnter(i)
        \/ ClassifierScore(i)
        \/ ClassifierFinish(i)

ConcurrentSpec == ConcurrentInit /\ [][ConcurrentNext]_vars

-----------------------------------------------------------------------------
(* redis_client.py: the Redis server and RedisClient *)

\* RedisClient(default_ttl=86400): 24 hours in seconds
default_ttl == 86400

\* the time to live each scraper gives its client
DefaultTtl(kind) == IF kind = "startups" THEN 5 * default_ttl ELSE default_ttl

\* the clock ticks twice a day
TickSeconds == default_ttl \div 2

\* The server holds hashes by key; the values of the fields (time stamps) are
\* never read and are left out. A key with volatile = FALSE never expires.
RedisKeys(hashes) == {e.key : e \in hashes}
HashAt(hashes, key) == CHOOSE e \in hashes : e.key = key

\* HEXISTS key field
hexists(hashes, key, field) == \E e \in hashes : e.key = key /\ field \in e.fields

\* HSET key field value: creates the hash when the key is absent
hset(hashes, key, field) ==
    IF key \in RedisKeys(hashes)
    THEN (hashes \ {HashAt(hashes, key)})
             \cup {[HashAt(hashes, key) EXCEPT !.fields = @ \cup {field}]}
    ELSE hashes \cup {[key |-> key, fields |-> {field}, volatile |-> FALSE, ttl |-> 0]}

\* mutant: EXPIRE NX, a time to live that is running is left as it is
expire_KeepsRunning(hashes, key, seconds) ==
    IF key \notin RedisKeys(hashes) THEN hashes
    ELSE IF HashAt(hashes, key).volatile THEN hashes
    ELSE (hashes \ {HashAt(hashes, key)})
             \cup {[HashAt(hashes, key) EXCEPT !.volatile = TRUE, !.ttl = seconds]}

\* EXPIRE key seconds: the time to live of the whole key starts again
expire(hashes, key, seconds) ==
    IF key \notin RedisKeys(hashes) THEN hashes
    ELSE IF seconds <= 0 THEN hashes \ {HashAt(hashes, key)}
    ELSE (hashes \ {HashAt(hashes, key)})
             \cup {[HashAt(hashes, key) EXCEPT !.volatile = TRUE, !.ttl = seconds]}

\* the server after some seconds: keys whose time to live has run out are gone
Elapse(hashes, seconds) ==
    {[e EXCEPT !.ttl = IF e.volatile THEN @ - seconds ELSE @] :
        e \in {h \in hashes : ~h.volatile \/ h.ttl > seconds}}

\* str.replace(old, new) for single characters
RECURSIVE Replace(_, _, _)
Replace(s, old, new) ==
    IF Len(s) = 0 THEN ""
    ELSE IF Len(s) = 1 THEN (IF s = old THEN new ELSE s)
    ELSE LET half == Len(s) \div 2
         IN Replace(SubSeq(s, 1, half), old, new) \o Replace(SubSeq(s, half + 1, Len(s)), old, new)

\* company_name.lower().strip().replace(' ', '_')
NormalizedCompany(company_name) == Replace(Strip(Lower(company_name)), " ", "_")

\* mutant: the company key keeps the case of the name
get_company_key_KeepCase(company_name) ==
    "job:company:" \o Replace(Strip(company_name), " ", "_")

\* f"job:company:{normalized}"
get_company_key(company_name) == "job:company:" \o NormalizedCompany(company_name)

\* hashlib.sha256(...).hexdigest(): distinct texts have distinct digests
sha256(s) == <<"sha256", s>>

\* sha256 of description.lower().strip()
hash_description(d) == sha256(Strip(Lower(d)))

\* is_job_cached: a failing command is logged and answered False
is_job_cached(r, job) ==
    IF ~r.up THEN FALSE
    ELSE hexists(r.hashes, get_company_key(job.company), hash_description(job.description))

\* expiration = ttl or self.default_ttl (ttl 0 stands for no ttl given)
Expiration(ttl, dflt) == IF ttl = 0 THEN dflt ELSE ttl

\* cache_job: hset, then expire; a failing command is logged and answered False
cache_job(r, job, ttl, dflt) ==
    IF ~r.up THEN [ret |-> FALSE, redis |-> r]
    ELSE LET key == get_company_key(job.company)
         IN [ret |-> TRUE,
             redis |-> [r EXCEPT !.hashes =
                           expire(hset(r.hashes, key, hash_description(job.description)),
                                  key, Expiration(ttl, dflt))]]

\* check_and_cache_job run by one process without interruption
check_and_cache_job(r, job, ttl, dflt) ==
    IF is_job_cached(r, job) THEN [ret |-> TRUE, redis |-> r]
    ELSE [ret |-> FALSE, redis |-> cache_job(r, job, ttl, dflt).redis]

\* the server stops answering (every command raises) or answers again
RedisFails ==
    /\ redis # None
    /\ redis.up
    /\ redis' = [redis EXCEPT !.up = FALSE]
    /\ UNCHANGED <<matcherVars, classifierVars, concurrentVars, scraperVars, cacheVars,
                   lifecycleVars, writerVars>>

RedisRecovers ==
    /\ redis # None
    /\ ~redis.up
    /\ redis' = [redis EXCEPT !.up = TRUE]
    /\ UNCHANGED <<matcherVars, classifierVars, concurrentVars, scraperVars, cacheVars,
                   lifecycleVars, writerVars>>

\* the postings of `recorded` whose company key the server still holds
StillCached(rec, hashes) == {p \in rec : p.key \in RedisKeys(hashes)}

\* a tick of the clock passes: keys run out, on a server that is up or down
\* (fresh marks a client whose call began after the last tick)
Tick ==
    /\ redis # None
    /\ clock < MaxTicks
    /\ clock' = clock + 1
    /\ redis' = [redis EXCEPT !.hashes = Elapse(@, TickSeconds)]
    /\ recorded' = StillCached(recorded, redis'.hashes)
    /\ lastCached' = {[l EXCEPT !.age = @ + 1] :
                         l \in {m \in lastCached : (m.age + 1) * TickSeconds < m.ttl}}
    /\ clients' = IF clients = <<>> THEN <<>>
                  ELSE [c \in 1..Len(clients) |-> [clients[c] EXCEPT !.fresh = FALSE]]
    /\ UNCHANGED <<matcherVars, classifierVars, concurrentVars, scraperVars, lifecycleVars,
                   writerVars>>

-----------------------------------------------------------------------------
(* models/job.py, services/linkedin_scraper.py, services/startups_scraper.py,
   workers/linkedin_worker.py, workers/startups_worker.py, utils/csv_writer.py *)

\* Job(...) as the scrapers construct it: the classification fields keep the
\* defaults of the dataclass (location and the dates are left out)
Job(job_title, company, url, source) ==
    [title |-> job_title, company |-> company, url |-> url, description |-> "",
     source |-> source, category |-> "", tags |-> <<>>,
     classification_confidence |-> Float(0)]

\* Job.classify()
classify(job) ==
    LET c == classify_job(job.title, job.description)
    IN IF ~c.ok THEN job
       ELSE [job EXCEPT !.category = c.val.category, !.tags = c.val.tags,
                        !.classification_confidence = c.val.confidence]

\* ','.join(tags)
RECURSIVE JoinComma(_)
JoinComma(tags) ==
    IF tags = <<>> THEN ""
    ELSE IF Len(tags) = 1 THEN tags[1]
    ELSE tags[1] \o "," \o JoinComma(Tail(tags))

\* Job.to_dict()
to_dict(job) ==
    [title |-> job.title, company |-> job.company, url |-> job.url,
     description |-> job.description, source |-> job.source,
     category |-> job.category, tags |-> JoinComma(job.tags),
     classification_confidence |-> job.classification_confidence]

\* DataFrame.drop(columns=['description'])
DropDescription(d) ==
    [title |-> d.title, company |-> d.company, url |-> d.url, source |-> d.source,
     category |-> d.category, tags |-> d.tags,
     classification_confidence |-> d.classification_confidence]

\* [job.to_dict() for job in jobs] without the description column
NewRows(jobs) == [i \in 1..Len(jobs) |-> DropDescription(to_dict(jobs[i]))]

\* DataFrame.drop_duplicates(subset=['url'], keep='first')
drop_duplicates(rows) ==
    LET keep == {i \in 1..Len(rows) : \A j \in 1..(i - 1) : rows[j].url # rows[i].url}
        Nth(k) == CHOOSE i \in keep : Cardinality({j \in keep : j <= i}) = k
    IN [k \in 1..Cardinality(keep) |-> rows[Nth(k)]]

\* the file after the rows are written: appended to the rows of an existing
\* file and de-duplicated by url, or a new file holding the rows as they are
safe_write_csv(file, rows) ==
    IF file.exists THEN [exists |-> TRUE, rows |-> drop_duplicates(file.rows \o rows)]
    ELSE [exists |-> TRUE, rows |-> rows]

\* what a site can show for one posting: details "" stands for a detail page
\* that cannot be fetched, today = FALSE for a posting of an earlier day
Element(job_title, company, url, details, today) ==
    [title |-> job_title, company |-> company, url |-> url, details |-> details, today |-> today]

Elements ==
    [backend  |-> Element("Backend Engineer", "Acme", "u1", "  Python and Docker ", TRUE),
     frontend |-> Element("Frontend Developer", "Acme", "u2", "React", TRUE),
     nodetail |-> Element("Data Engineer", "Beta Corp", "u3", "", TRUE),
     unknown  |-> Element("Unknown", "Gamma", "u4", "Go", TRUE),
     repost   |-> Element("Python Dev", "ACME", "u5", "python and docker", TRUE),
     old      |-> Element("", "Old Co", "u6", "", FALSE)]

\* the pages of elements a site serves
Sites ==
    {<<>>,
     <<<<Elements.backend, Elements.frontend>>>>,
     <<<<Elements.backend, Elements.nodetail>>, <<Elements.repost, Elements.frontend>>>>,
     <<<<Elements.unknown>>, <<Elements.backend>>>>,
     <<<<Elements.nodetail, Elements.backend>>, <<Elements.old, Elements.frontend>>>>,
     <<<<Elements.backend, Elements.backend>>>>}

\* the keywords of a LinkedIn worker (a list) and of a Startups worker (a string)
LinkedInKeywords == {<<>>, <<"python">>, <<"Python", "docker">>, <<"python", "Python">>, <<"">>}
StartupsKeywords == {"", "python"}

\* _extract_job_from_element: no Job without a title or a url
extract_job_from_element(elem) ==
    IF elem.title = "Unknown" \/ elem.url = "" THEN None
    ELSE Job(Strip(elem.title), Strip(elem.company), elem.url, "linkedin")

\* fetch_job_details: inner_text().strip().lower() of the description
\* element, None ("" here) when the page or the element cannot be had
fetch_job_details(elem) == Lower(Strip(elem.details))

\* one element of the loop of _extract_jobs_from_page
ExtractElement(acc, elem, has_redis, dflt) ==
    LET extracted == extract_job_from_element(elem)
        job_details == fetch_job_details(elem)
        job == IF job_details # "" THEN [extracted EXCEPT !.description = job_details]
               ELSE extracted
        checked == check_and_cache_job(acc.redis, job, 0, dflt)
    IN IF extracted = None THEN acc
       ELSE IF has_redis /\ checked.ret THEN [acc EXCEPT !.found = TRUE]
       ELSE [jobs |-> Append(acc.jobs, job), found |-> TRUE,
             redis |-> IF has_redis THEN checked.redis ELSE acc.redis]

\* _extract_jobs_from_page: (jobs, found) and the server afterwards
RECURSIVE extract_jobs_from_page(_, _, _, _)
extract_jobs_from_page(page, r, has_redis, dflt) ==
    IF page = <<>> THEN [jobs |-> <<>>, found |-> FALSE, redis |-> r]
    ELSE ExtractElement(extract_jobs_from_page(SubSeq(page, 1, Len(page) - 1), r, has_redis, dflt),
                        page[Len(page)], has_redis, dflt)

\* _evaluate_job_details
evaluate_job_details(job_details, kws) ==
    IF job_details = "" THEN Return(FALSE)
    ELSE IF kws = <<>> THEN Return(TRUE)
    ELSE match_all_keywords(kws, job_details, FALSE)

\* LinkedIn serves the results in pages of ten
jobs_per_page == 10

\* the Startups scraper clicks "load more" at most this often
max_load_more_attempts == 50

\* a search_jobs call that has not begun its loop; `error` keeps how an error
\* ended it: "timeout" and "load_more" are handled inside the loop, "exception"
\* by the handler around the search
NewSearch ==
    [start |-> 0, load_more_attempts |-> 0, all_jobs |-> <<>>, returned |-> <<>>,
     error |-> "none"]

\* all_jobs[:max_results]
Take_All(s, n) == s

Take(s, n) == SubSeq(s, 1, IF Len(s) < n THEN Len(s) ELSE n)

ScraperInit ==
    /\ \E kind \in {"linkedin", "startups"} :
       \E kws \in (IF kind = "linkedin" THEN LinkedInKeywords ELSE StartupsKeywords) :
       \E max_results \in 1..MaxResults, has_redis \in BOOLEAN :
           worker = [kind |-> kind, keywords |-> kws, max_results |-> max_results,
                     has_redis |-> has_redis, search_count |-> 0, pc |-> "idle"]
    /\ site \in Sites
    /\ search = NewSearch
    /\ evaluations = {}
    /\ csv = [exists |-> FALSE, rows |-> <<>>]
    /\ redis = [up |-> TRUE, hashes |-> {}]
    /\ MatcherIdle /\ ClassifierIdle /\ ConcurrentIdle /\ CacheIdle /\ LifecycleIdle /\ WriterIdle

\* do_work up to the loop of search_jobs; the Startups scraper returns [] at
\* once when it is given no keywords
StartCycle ==
    /\ worker.pc = "idle"
    /\ worker.search_count < MaxCycles
    /\ search' = NewSearch
    /\ evaluations' = {}
    /\ worker' = [worker EXCEPT !.search_count = @ + 1,
                     !.pc = IF worker.kind = "startups" /\ worker.keywords = "" THEN "save"
                            ELSE "search"]
    /\ UNCHANGED <<site, csv, redis, outsideScraper>>

\* the decisions of the filter on the jobs of a page, in order
Decisions(jobs, kws) ==
    [i \in 1..Len(jobs) |-> evaluate_job_details(jobs[i].description, kws)]

\* one pass of the pagination loop of LinkedInScraperService.search_jobs
LinkedInPage ==
    /\ worker.kind = "linkedin"
    /\ worker.pc = "search"
    /\ LET pageno == (search.start \div jobs_per_page) + 1
       IN /\ pageno <= Len(site)
          /\ LET ex == extract_jobs_from_page(site[pageno], redis, worker.has_redis,
                                              DefaultTtl(worker.kind))
                 decisions == Decisions(ex.jobs, worker.keywords)
                 raising == {i \in 1..Len(ex.jobs) : ~decisions[i].ok}
                 taken == IF raising = {} THEN 1..Len(ex.jobs)
                          ELSE {i \in 1..Len(ex.jobs) : \A j \in raising : i <= j}
                 Accepted(job) == evaluate_job_details(job.description, worker.keywords).val
                 all_jobs == search.all_jobs \o SelectSeq(ex.jobs, Accepted)
             IN /\ redis' = ex.redis
                /\ IF ~ex.found
                   THEN /\ worker' = [worker EXCEPT !.pc = "trim"]
                        /\ UNCHANGED <<search, evaluations>>
                   ELSE /\ evaluations' = evaluations \cup
                               {[job |-> ex.jobs[i], keywords |-> worker.keywords,
                                 decision |-> decisions[i]] : i \in taken}
                        /\ IF raising # {}
                           THEN /\ search' = [search EXCEPT !.returned = <<>>,
                                                              !.error = "exception"]
                                /\ worker' = [worker EXCEPT !.pc = "save"]
                           ELSE /\ search' = [search EXCEPT !.all_jobs = all_jobs,
                                                 !.start = @ + jobs_per_page]
                                /\ worker' = [worker EXCEPT !.pc =
                                       IF Len(all_jobs) < worker.max_results THEN "search"
                                       ELSE "trim"]
    /\ UNCHANGED <<site, csv, outsideScraper>>

\* PlaywrightTimeout while the page loads (a page past the last has no <li>)
LinkedInTimeout ==
    /\ worker.kind = "linkedin"
    /\ worker.pc = "search"
    /\ search' = [search EXCEPT !.error = "timeout"]
    /\ worker' = [worker EXCEPT !.pc = "trim"]
    /\ UNCHANGED <<site, evaluations, csv, redis, outsideScraper>>

\* one link of the loop over job_links of StartupsScraperService.search_jobs
StartupsLink(acc, elem, has_redis, dflt) ==
    LET job == Job(IF Strip(elem.title) = "" THEN Strip(elem.company) ELSE Strip(elem.title),
                   Strip(elem.company), elem.url, "startups")
        checked == check_and_cache_job(acc.redis, job, 0, dflt)
    IN IF acc.found_old_job \/ elem.url = "" THEN acc
       ELSE IF ~elem.today THEN [acc EXCEPT !.found_old_job = TRUE]
       ELSE IF has_redis /\ checked.ret THEN acc
       ELSE [acc EXCEPT !.jobs = Append(@, job),
                        !.redis = IF has_redis THEN checked.redis ELSE @]

RECURSIVE StartupsLinks(_, _, _, _)
StartupsLinks(links, r, has_redis, dflt) ==
    IF links = <<>> THEN [jobs |-> <<>>, found_old_job |-> FALSE, redis |-> r]
    ELSE StartupsLink(StartupsLinks(SubSeq(links, 1, Len(links) - 1), r, has_redis, dflt),
                      links[Len(links)], has_redis, dflt)

\* the links the page shows after n clicks on "load more"
RECURSIVE Shown(_, _)
Shown(pages, n) ==
    IF n < 0 \/ pages = <<>> THEN <<>>
    ELSE pages[1] \o Shown(Tail(pages), n - 1)

\* one pass of the load-more loop of StartupsScraperService.search_jobs:
\* every pass reads all the links the page shows
StartupsBatch ==
    /\ worker.kind = "startups"
    /\ worker.pc = "search"
    /\ LET links == Shown(site, search.load_more_attempts)
           batch == StartupsLinks(links, redis, worker.has_redis, DefaultTtl(worker.kind))
           all_jobs == search.all_jobs \o batch.jobs
           more == search.load_more_attempts + 1 < Len(site)
       IN IF links = <<>>
          THEN /\ worker' = [worker EXCEPT !.pc = "trim"]
               /\ UNCHANGED <<search, redis>>
          ELSE /\ redis' = batch.redis
               /\ IF batch.found_old_job \/ Len(all_jobs) >= worker.max_results \/ ~more
                  THEN /\ search' = [search EXCEPT !.all_jobs = all_jobs]
                       /\ worker' = [worker EXCEPT !.pc = "trim"]
                  ELSE /\ search' = [search EXCEPT !.all_jobs = all_jobs,
                                        !.load_more_attempts = @ + 1]
                       /\ worker' = [worker EXCEPT !.pc =
                              IF search.load_more_attempts + 1 < max_load_more_attempts
                              THEN "search" ELSE "trim"]
    /\ UNCHANGED <<site, evaluations, csv, outsideScraper>>

\* the wait after a click on "load more" raises: `except Exception` around the
\* click logs a warning and leaves the loop with the jobs collected so far
StartupsLoadMoreFails ==
    /\ worker.kind = "startups"
    /\ worker.pc = "search"
    /\ search.load_more_attempts > 0
    /\ search' = [search EXCEPT !.error = "load_more"]
    /\ worker' = [worker EXCEPT !.pc = "trim"]
    /\ UNCHANGED <<site, evaluations, csv, redis, outsideScraper>>

\* any other exception inside search_jobs: logged, [] is returned
SearchError ==
    /\ worker.pc = "search"
    /\ search' = [search EXCEPT !.returned = <<>>, !.error = "exception"]
    /\ worker' = [worker EXCEPT !.pc = "save"]
    /\ UNCHANGED <<site, evaluations, csv, redis, outsideScraper>>

\* after the loop: all_jobs[:max_results] is returned
Trim ==
    /\ worker.pc = "trim"
    /\ search' = [search EXCEPT !.returned = Take(search.all_jobs, worker.max_results)]
    /\ worker' = [worker EXCEPT !.pc = "save"]
    /\ UNCHANGED <<site, evaluations, csv, redis, outsideScraper>>

\* do_work after search_jobs: the jobs found are written to the CSV file
SaveJobs ==
    /\ worker.pc = "save"
    /\ csv' = IF search.returned = <<>> THEN csv
              ELSE safe_write_csv(csv, NewRows(search.returned))
    /\ worker' = [worker EXCEPT !.pc = "idle"]
    /\ UNCHANGED <<site, search, evaluations, redis, outsideScraper>>

\* the file cannot be written: the exception is logged, the file is as before
SaveFails ==
    /\ worker.pc = "save"
    /\ search.returned # <<>>
    /\ worker' = [worker EXCEPT !.pc = "idle"]
    /\ UNCHANGED <<site, search, evaluations, csv, redis, outsideScraper>>

ScraperNext ==
    \/ StartCycle
    \/ LinkedInPage
    \/ LinkedInTimeout
    \/ StartupsBatch
    \/ StartupsLoadMoreFails
    \/ SearchError
    \/ Trim
    \/ SaveJobs
    \/ SaveFails
    \/ RedisFails
    \/ RedisRecovers
    \/ Tick

ScraperSpec == ScraperInit /\ [][ScraperNext]_vars

\* SearchSpec: one call of search_jobs, from its entry to its return
SearchInit ==
    /\ ScraperInit
    /\ worker.search_count = 0

SearchCall ==
    /\ worker.search_count = 0
    /\ StartCycle

SearchNext ==
    \/ SearchCall
    \/ LinkedInPage
    \/ LinkedInTimeout
    \/ StartupsBatch
    \/ StartupsLoadMoreFails
    \/ SearchError
    \/ Trim
    \/ RedisFails
    \/ RedisRecovers

SearchSpec == SearchInit /\ [][SearchNext]_vars

-----------------------------------------------------------------------------
(* redis_client.py: check_and_cache_job called by two worker processes,
   command by command *)

\* the worker processes, by the scraper that owns the client
CacheClients == <<"linkedin", "startups">>

\* the postings the clients ask about
CacheJob(company, d) == [Job("Engineer", company, "u", "linkedin") EXCEPT !.description = d]

CacheJobs ==
    {CacheJob("Ab Co", "Py "), CacheJob(" AB co", " py"), CacheJob("ab_co", "Go")}

\* what `recorded` keeps of a posting that has been cached
RecordOf(job) ==
    [company |-> NormalizedCompany(job.company),
     description |-> Strip(Lower(job.description)),
     key |-> get_company_key(job.company)]

\* company_key, description_hash and the record of each posting asked about
CompanyKey == [j \in CacheJobs |-> get_company_key(j.company)]
DescriptionHash == [j \in CacheJobs |-> hash_description(j.description)]
Record == [j \in CacheJobs |-> RecordOf(j)]

CacheInit ==
    /\ clients = [c \in 1..Len(CacheClients) |->
                     [kind |-> CacheClients[c], job |-> CacheJob("", ""), pc |-> "idle",
                      ret |-> FALSE, ncalls |-> 0, lookup_ok |-> FALSE,
                      was_recorded |-> FALSE, cached |-> FALSE, fresh |-> FALSE,
                      failed |-> FALSE, raised |-> FALSE]]
    /\ clock = 0
    /\ recorded = {}
    /\ lastCached = {}
    /\ redis = [up |-> TRUE, hashes |-> {}]
    /\ MatcherIdle /\ ClassifierIdle /\ ConcurrentIdle /\ ScraperIdle /\ LifecycleIdle /\ WriterIdle

\* the calls of check_and_cache_job made so far
RECURSIVE SumCalls(_)
SumCalls(n) == IF n = 0 THEN 0 ELSE clients[n].ncalls + SumCalls(n - 1)
CallsMade == SumCalls(Len(CacheClients))

\* client c calls check_and_cache_job(job)
CacheCall(c, job) ==
    /\ clients[c].pc \in {"idle", "done"}
    /\ CallsMade < MaxCalls
    /\ clients' = [clients EXCEPT ![c] =
                      [@ EXCEPT !.job = job, !.pc = "hexists", !.ret = FALSE,
                                !.ncalls = @ + 1, !.lookup_ok = FALSE,
                                !.was_recorded = FALSE, !.cached = FALSE, !.fresh = TRUE,
                                !.failed = FALSE, !.raised = FALSE]]
    /\ UNCHANGED <<clock, recorded, lastCached, redis, outsideCache>>

\* mutant: the exception of a Redis command reaches the caller
OnRedisError_Propagate == Raise("RedisError")

\* except Exception: the error is logged and False is returned
OnRedisError == Return(FALSE)

\* is_job_cached: HEXISTS; True ends check_and_cache_job, False (also when
\* the command raises) goes on to cache_job
CacheLookup(c) ==
    /\ clients[c].pc = "hexists"
    /\ LET job == clients[c].job
           is_cached == IF redis.up
                        THEN Return(hexists(redis.hashes, CompanyKey[job],
                                            DescriptionHash[job]))
                        ELSE OnRedisError
           exists == is_cached.ok /\ is_cached.val
       IN clients' = [clients EXCEPT ![c] =
                         [@ EXCEPT !.pc = IF exists \/ ~is_cached.ok THEN "done" ELSE "hset",
                                   !.ret = exists,
                                   !.lookup_ok = redis.up,
                                   !.failed = ~redis.up,
                                   !.raised = ~is_cached.ok,
                                   !.was_recorded =
                                        \E p \in recorded :
                                            /\ p.company = Record[job].company
                                            /\ p.description = Record[job].description]]
    /\ UNCHANGED <<clock, recorded, lastCached, redis, outsideCache>>

\* cache_job: HSET; when the command raises cache_job returns False
CacheHset(c) ==
    /\ clients[c].pc = "hset"
    /\ LET job == clients[c].job
       IN IF redis.up
          THEN /\ redis' = [redis EXCEPT !.hashes =
                               hset(@, CompanyKey[job], DescriptionHash[job])]
               /\ recorded' = recorded \cup {Record[job]}
               /\ clients' = [clients EXCEPT ![c].pc = "expire"]
          ELSE /\ clients' = [clients EXCEPT ![c].pc = "done", ![c].failed = TRUE,
                                             ![c].cached = OnRedisError.ok /\ OnRedisError.val,
                                             ![c].raised = ~OnRedisError.ok]
               /\ UNCHANGED <<redis, recorded>>
    /\ UNCHANGED <<clock, lastCached, outsideCache>>

\* what `lastCached` holds once cache_job has set the expiration of a key
\* that exists: the postings known for the key, and the job's own when its
\* field is still there
CachedAt(key, field, seconds) ==
    IF key \notin RedisKeys(redis.hashes) THEN lastCached
    ELSE {l \in lastCached : l.key # key} \cup
         {[key |-> key, age |-> 0, ttl |-> seconds,
           postings |-> UNION {l.postings : l \in {m \in lastCached : m.key = key}}
                            \cup (IF hexists(redis.hashes, key, field) THEN {field} ELSE {})]}

\* cache_job: EXPIRE of the company key, then check_and_cache_job returns False
CacheExpire(c) ==
    /\ clients[c].pc = "expire"
    /\ IF redis.up
       THEN /\ redis' = [redis EXCEPT !.hashes =
                            expire(@, CompanyKey[clients[c].job],
                                   Expiration(0, DefaultTtl(clients[c].kind)))]
            /\ lastCached' = CachedAt(CompanyKey[clients[c].job],
                                      DescriptionHash[clients[c].job],
                                      Expiration(0, DefaultTtl(clients[c].kind)))
            /\ clients' = [clients EXCEPT ![c].pc = "done", ![c].cached = TRUE]
       ELSE /\ clients' = [clients EXCEPT ![c].pc = "done", ![c].failed = TRUE,
                                          ![c].cached = OnRedisError.ok /\ OnRedisError.val,
                                          ![c].raised = ~OnRedisError.ok]
            /\ UNCHANGED <<redis, lastCached>>
    /\ UNCHANGED <<clock, recorded, outsideCache>>

CacheNext ==
    \/ \E c \in 1..Len(CacheClients) :
           \/ \E job \in CacheJobs : CacheCall(c, job)
           \/ CacheLookup(c)
           \/ CacheHset(c)
           \/ CacheExpire(c)
    \/ RedisFails
    \/ RedisRecovers
    \/ Tick

CacheSpec == CacheInit /\ [][CacheNext]_vars

-----------------------------------------------------------------------------
(* WorkerSpec: src/workers/base_worker.py.  A BaseWorker lives in the main    *)
(* process; start() and stop() are called there, one call at a time.  Each    *)
(* start() creates a background process that runs _run_loop; the processes of *)
(* one worker share its _stop_event.                                          *)
-----------------------------------------------------------------------------
WorkerOrder == <<"linkedin", "startups">>

\* a Process object: where its _run_loop stands, the time spent in the current
\* wait, how the do_work of the current cycle ended, whether its error was logged;
\* the rest is kept for the properties: `after_error`, the do_work in progress
\* follows one that raised; `stopping`, the stop event has been set while the
\* process was alive; `late`, a cycle has begun after that
NewProcess(started) ==
    [pc |-> IF started THEN "while" ELSE "created", waited |-> 0, outcome |-> "none",
     logged |-> FALSE, after_error |-> FALSE, stopping |-> FALSE, late |-> FALSE]

\* a process that has ended: what it did matters no more
Exited == [NewProcess(FALSE) EXCEPT !.pc = "exited"]

\* BaseWorker.__init__
NewWorker ==
    [running |-> FALSE, stop_event |-> FALSE, process |-> 0, processes |-> <<>>,
     pc |-> "idle", last |-> "none"]

\* Process.is_alive(): started and not ended
is_alive(p) == p.pc \in {"while", "do_work", "wait"}

Alive(wk) == {i \in 1..Len(wk.processes) : is_alive(wk.processes[i])}

is_running(wk) ==
    wk.running /\ wk.process # 0 /\ is_alive(wk.processes[wk.process])

\* start(): refused while _running; else clears the stop event, sets _running and
\* creates the process; Process.start() either starts it or raises
start(wk, started) ==
    IF wk.running THEN [wk EXCEPT !.last = "start_refused"]
    ELSE [wk EXCEPT !.stop_event = FALSE,
                    !.running = TRUE,
                    !.processes = Append(@, NewProcess(started)),
                    !.process = Len(wk.processes) + 1,
                    !.last = IF started THEN "started" ELSE "start_raised"]

\* _stop_event.set(), seen by every process of the worker
SetStopEvent(wk) ==
    [wk EXCEPT !.stop_event = TRUE,
               !.processes = [i \in 1..Len(wk.processes) |->
                                 IF is_alive(wk.processes[i])
                                 THEN [wk.processes[i] EXCEPT !.stopping = TRUE]
                                 ELSE wk.processes[i]]]

\* stop() up to its first wait: refused while not _running; else sets the stop
\* event and joins the process if there is a live one
stop(wk) ==
    IF ~wk.running THEN [wk EXCEPT !.last = "stop_refused"]
    ELSE IF wk.process # 0 /\ is_alive(wk.processes[wk.process])
         THEN [SetStopEvent(wk) EXCEPT !.pc = "join"]
         ELSE [SetStopEvent(wk) EXCEPT !.running = FALSE, !.last = "stopped"]

\* Process.terminate() sends SIGTERM.  A process forked by a main process that
\* has installed WorkerManager._signal_handler inherits that handler, which only
\* sets a flag: the process then survives the signal.
terminate(p, dies) == IF dies THEN Exited ELSE p

\* stop(): join(timeout) has returned.  A process that has ended: _running =
\* False.  A live one (the timeout has passed): terminate(), then join(timeout=2).
join(wk, dies) ==
    IF ~is_alive(wk.processes[wk.process])
    THEN [wk EXCEPT !.running = FALSE, !.pc = "idle", !.last = "stopped"]
    ELSE [wk EXCEPT !.processes[wk.process] = terminate(@, dies), !.pc = "join2"]

\* Event.wait(timeout=interval) returns once the event is set or the time is up
wait(event, waited) == event \/ waited = interval

\* where _run_loop goes after do_work when it raised an Exception: `except
\* Exception` logs it and the loop goes on to the wait
OnDoWorkError_Propagate == [pc |-> "exited", logged |-> FALSE]

OnDoWorkError == [pc |-> "wait", logged |-> TRUE]

WorkerInit ==
    /\ workers = [n \in {WorkerOrder[1]} |-> NewWorker]
    /\ manager = None
    /\ WriterIdle
    /\ MatcherIdle /\ ClassifierIdle /\ ConcurrentIdle /\ ScraperIdle /\ CacheIdle /\ RedisIdle

\* a call of start() from the main process
Start(n) ==
    /\ manager = None
    /\ workers[n].pc = "idle"
    /\ workers[n].running \/ Len(workers[n].processes) < MaxStarts
    /\ \E started \in BOOLEAN : workers' = [workers EXCEPT ![n] = start(@, started)]
    /\ UNCHANGED <<manager, outsideLifecycle>>

\* a call of stop() from the main process
Stop(n) ==
    /\ manager = None
    /\ workers[n].pc = "idle"
    /\ workers' = [workers EXCEPT ![n] = stop(@)]
    /\ UNCHANGED <<manager, outsideLifecycle>>

StopJoin(n) ==
    /\ workers[n].pc = "join"
    /\ \E dies \in BOOLEAN : workers' = [workers EXCEPT ![n] = join(@, dies)]
    /\ UNCHANGED <<manager, outsideLifecycle>>

\* stop(): join(timeout=2) has returned, whatever became of the process
StopJoin2(n) ==
    /\ workers[n].pc = "join2"
    /\ workers' = [workers EXCEPT ![n].running = FALSE, ![n].pc = "idle",
                                  ![n].last = "stopped"]
    /\ UNCHANGED <<manager, outsideLifecycle>>

\* _run_loop: `while not self._stop_event.is_set()`, the start of a work cycle
LoopTest(n, i) ==
    /\ workers[n].processes[i].pc = "while"
    /\ workers' = [workers EXCEPT ![n].processes[i] =
                      IF workers[n].stop_event
                      THEN Exited
                      ELSE [@ EXCEPT !.pc = "do_work", !.outcome = "none", !.logged = FALSE,
                                     !.after_error = workers[n].processes[i].outcome = "raised",
                                     !.late = @ \/ workers[n].processes[i].stopping]]
    /\ UNCHANGED <<manager, outsideLifecycle>>

\* _run_loop: do_work() returns or raises an Exception
DoWork(n, i) ==
    /\ workers[n].processes[i].pc = "do_work"
    /\ \E outcome \in {"returned", "raised"} :
           workers' = [workers EXCEPT ![n].processes[i] =
                          IF outcome = "raised"
                          THEN [@ EXCEPT !.pc = OnDoWorkError.pc,
                                         !.logged = OnDoWorkError.logged,
                                         !.outcome = outcome, !.waited = 0,
                                         !.after_error = FALSE]
                          ELSE [@ EXCEPT !.pc = "wait", !.logged = FALSE,
                                         !.outcome = outcome, !.waited = 0,
                                         !.after_error = FALSE]]
    /\ UNCHANGED <<manager, outsideLifecycle>>

\* time passes for a process in _stop_event.wait
WaitTick(n, i) ==
    /\ workers[n].processes[i].pc = "wait"
    /\ workers[n].processes[i].waited < interval
    /\ workers' = [workers EXCEPT ![n].processes[i].waited = @ + 1]
    /\ UNCHANGED <<manager, outsideLifecycle>>

\* _stop_event.wait(timeout=self.interval) returns
WaitReturns(n, i) ==
    /\ workers[n].processes[i].pc = "wait"
    /\ wait(workers[n].stop_event, workers[n].processes[i].waited)
    /\ workers' = [workers EXCEPT ![n].processes[i].pc = "while",
                                  ![n].processes[i].waited = 0]
    /\ UNCHANGED <<manager, outsideLifecycle>>

ProcessStep(n) ==
    \E i \in 1..Len(workers[n].processes) :
        \/ LoopTest(n, i)
        \/ DoWork(n, i)
        \/ WaitTick(n, i)
        \/ WaitReturns(n, i)

WorkerNext ==
    \E n \in DOMAIN workers :
        \/ Start(n)
        \/ Stop(n)
        \/ StopJoin(n)
        \/ StopJoin2(n)
        \/ ProcessStep(n)

WorkerSpec == WorkerInit /\ [][WorkerNext]_vars

-----------------------------------------------------------------------------
(* ManagerSpec: src/workers/worker_manager.py.  main.py constructs the        *)
(* WorkerManager, which installs _signal_handler for SIGTERM and SIGINT,       *)
(* registers the workers and calls run().                                      *)
-----------------------------------------------------------------------------
\* WorkerManager.__init__ and register_workers, then run() is entered
ManagerInit ==
    /\ workers = [n \in {WorkerOrder[k] : k \in 1..Len(WorkerOrder)} |-> NewWorker]
    /\ manager = [pc |-> "start_all", shutdown_requested |-> FALSE, error |-> FALSE, i |-> 1]
    /\ WriterIdle
    /\ MatcherIdle /\ ClassifierIdle /\ ConcurrentIdle /\ ScraperIdle /\ CacheIdle /\ RedisIdle

InRun == manager # None /\ manager.pc # "returned"

\* _signal_handler: SIGINT or SIGTERM arrives at the main process
Signal ==
    /\ InRun
    /\ ~manager.shutdown_requested
    /\ manager' = [manager EXCEPT !.shutdown_requested = TRUE]
    /\ UNCHANGED <<workers, outsideLifecycle>>

\* start_all: worker.start() for the next worker; an exception of start() is
\* logged and the loop goes on
StartAll ==
    /\ InRun
    /\ manager.pc = "start_all"
    /\ \E started \in BOOLEAN :
           workers' = [workers EXCEPT ![WorkerOrder[manager.i]] = start(@, started)]
    /\ manager' = IF manager.i < Len(WorkerOrder)
                  THEN [manager EXCEPT !.i = @ + 1]
                  ELSE [manager EXCEPT !.pc = "print_status", !.i = 1]
    /\ UNCHANGED outsideLifecycle

\* run(): print_status() returns, or raises and `except Exception` logs it;
\* `finally` leads to stop_all
PrintStatus ==
    /\ InRun
    /\ manager.pc = "print_status"
    /\ \E raises \in BOOLEAN :
           manager' = IF raises
                      THEN [manager EXCEPT !.pc = "stop_all", !.error = TRUE]
                      ELSE [manager EXCEPT !.pc = "wait_for_shutdown"]
    /\ UNCHANGED <<workers, outsideLifecycle>>

\* wait_for_shutdown: `while not self._shutdown_requested: time.sleep(0.5)` ends
WaitForShutdown ==
    /\ InRun
    /\ manager.pc = "wait_for_shutdown"
    /\ manager.shutdown_requested
    /\ manager' = [manager EXCEPT !.pc = "stop_all"]
    /\ UNCHANGED <<workers, outsideLifecycle>>

\* stop_all has dealt with worker i: the next one, or run() returns
NextToStop ==
    IF manager.i < Len(WorkerOrder)
    THEN [manager EXCEPT !.pc = "stop_all", !.i = @ + 1]
    ELSE [manager EXCEPT !.pc = "returned"]

\* stop_all: `if worker.is_running(): worker.stop(timeout=timeout)`
StopAll ==
    /\ InRun
    /\ manager.pc = "stop_all"
    /\ LET n == WorkerOrder[manager.i]
       IN  IF is_running(workers[n])
           THEN /\ workers' = [workers EXCEPT ![n] = stop(@)]
                /\ manager' = IF workers'[n].pc = "idle" THEN NextToStop
                              ELSE [manager EXCEPT !.pc = "in_stop"]
           ELSE /\ manager' = NextToStop
                /\ UNCHANGED workers
    /\ UNCHANGED outsideLifecycle

\* stop_all: worker.stop() has returned
StopReturns ==
    /\ InRun
    /\ manager.pc = "in_stop"
    /\ workers[WorkerOrder[manager.i]].pc = "idle"
    /\ manager' = NextToStop
    /\ UNCHANGED <<workers, outsideLifecycle>>

ManagerNext ==
    \/ Signal
    \/ StartAll
    \/ PrintStatus
    \/ WaitForShutdown
    \/ StopAll
    \/ StopReturns
    \/ \E n \in DOMAIN workers :
           \/ StopJoin(n)
           \/ StopJoin2(n)
           \/ ProcessStep(n)

ManagerSpec == ManagerInit /\ [][ManagerNext]_vars

-----------------------------------------------------------------------------
(* WriterSpec: src/utils/csv_writer.py.  Processes call safe_write_csv on the  *)
(* same file; each call is followed through the FileLock, the read of the     *)
(* existing file, the merge and the write.                                     *)
-----------------------------------------------------------------------------
Writers == <<"caller 1", "caller 2">>

\* a row of the file: its url and the rest of its columns
CsvRow(url, job_title) == [url |-> url, title |-> job_title]

CsvRows == {CsvRow("u1", "Backend"), CsvRow("u1", "Backend II"), CsvRow("u2", "Frontend")}

RECURSIVE SeqsUpTo(_, _)
SeqsUpTo(S, n) ==
    IF n = 0 THEN {<<>>}
    ELSE SeqsUpTo(S, n - 1) \cup {Append(q, x) : q \in {r \in SeqsUpTo(S, n - 1) : Len(r) = n - 1}, x \in S}

\* the `data` argument of a call
Datas == SeqsUpTo(CsvRows, MaxRows)

Urls(rows) == {rows[i].url : i \in 1..Len(rows)}

\* FileLock(lock_file, timeout=lock_timeout): the lock can be taken when no
\* other process holds it
acquire_NoLock(holder) == TRUE

acquire(holder) == holder = 0

\* no file yet, or a file written by an earlier call for one posting
WriterInit ==
    /\ writers = [c \in 1..Len(Writers) |->
                     [pc |-> "idle", data |-> <<>>, combined |-> <<>>, ret |-> None,
                      found |-> {}, ended |-> "no"]]
    /\ csv_file \in {[exists |-> FALSE, rows |-> <<>>]}
                        \cup {[exists |-> TRUE, rows |-> <<r>>] : r \in CsvRows}
    /\ file_lock = 0
    /\ LifecycleIdle
    /\ MatcherIdle /\ ClassifierIdle /\ ConcurrentIdle /\ ScraperIdle /\ CacheIdle /\ RedisIdle

\* safe_write_csv(filename, data): `if not data: return True`, else on to the
\* lock; `found` keeps the urls the file holds when the call is made, `ended`
\* the way the call ends: "empty", "timeout", "error" or "written"
WriteCall(c, data) ==
    /\ writers[c].pc = "idle"
    /\ writers' = [writers EXCEPT ![c] =
                      [@ EXCEPT !.data = data,
                                !.found = IF csv_file.exists THEN Urls(csv_file.rows) ELSE {},
                                !.pc = IF data = <<>> THEN "done" ELSE "acquire",
                                !.ended = IF data = <<>> THEN "empty" ELSE "no",
                                !.ret = IF data = <<>> THEN Return(TRUE) ELSE None]]
    /\ UNCHANGED <<csv_file, file_lock, outsideWriter>>

\* `with FileLock(lock_file, timeout=lock_timeout)` is entered
AcquireLock(c) ==
    /\ writers[c].pc = "acquire"
    /\ acquire(file_lock)
    /\ file_lock' = c
    /\ writers' = [writers EXCEPT ![c].pc = "read"]
    /\ UNCHANGED <<csv_file, outsideWriter>>

\* `except Timeout`: the error is logged and the call returns False
OnTimeout_Propagate == Raise("Timeout")

OnTimeout == Return(FALSE)

\* the lock is held by another process for lock_timeout seconds
LockTimeout(c) ==
    /\ writers[c].pc = "acquire"
    /\ ~acquire(file_lock)
    /\ writers' = [writers EXCEPT ![c].pc = "done", ![c].ret = OnTimeout,
                                  ![c].ended = "timeout"]
    /\ UNCHANGED <<csv_file, file_lock, outsideWriter>>

\* resolve(), mkdir() or pd.DataFrame(data) raises before the lock is asked for:
\* `except Exception` logs the error and returns False
PrepareFails(c) ==
    /\ writers[c].pc = "acquire"
    /\ writers' = [writers EXCEPT ![c].pc = "done", ![c].ret = Return(FALSE),
                                  ![c].ended = "error"]
    /\ UNCHANGED <<csv_file, file_lock, outsideWriter>>

\* the existing file is read and merged with the new rows: combined_df
ReadAndMerge(c) ==
    /\ writers[c].pc = "read"
    /\ writers' = [writers EXCEPT ![c].combined = safe_write_csv(csv_file, writers[c].data).rows,
                                  ![c].pc = "write"]
    /\ UNCHANGED <<csv_file, file_lock, outsideWriter>>

\* combined_df.to_csv, `return True`, and the lock is released on the way out
WriteCsv(c) ==
    /\ writers[c].pc = "write"
    /\ csv_file' = [exists |-> TRUE, rows |-> writers[c].combined]
    /\ file_lock' = 0
    /\ writers' = [writers EXCEPT ![c].pc = "done", ![c].ret = Return(TRUE),
                                  ![c].ended = "written", ![c].combined = <<>>]
    /\ UNCHANGED outsideWriter

\* to_csv raises: the file is as it was when it could not be opened, else it
\* holds the rows written before the error; the lock is released, `except
\* Exception` logs the error and returns False
WriteFails(c) ==
    /\ writers[c].pc = "write"
    /\ \/ UNCHANGED csv_file
       \/ \E k \in 0..(Len(writers[c].combined) - 1) :
              csv_file' = [exists |-> TRUE, rows |-> SubSeq(writers[c].combined, 1, k)]
    /\ file_lock' = 0
    /\ writers' = [writers EXCEPT ![c].pc = "done", ![c].ret = Return(FALSE),
                                  ![c].ended = "error", ![c].combined = <<>>]
    /\ UNCHANGED outsideWriter

WriterNext ==
    \E c \in 1..Len(Writers) :
        \/ \E data \in Datas : WriteCall(c, data)
        \/ AcquireLock(c)
        \/ LockTimeout(c)
        \/ PrepareFails(c)
        \/ ReadAndMerge(c)
        \/ WriteCsv(c)
        \/ WriteFails(c)

WriterSpec == WriterInit /\ [][WriterNext]_vars

-----------------------------------------------------------------------------
(* Properties of the matcher (checked under MatcherSpec) *)

\* the text and keywords "case-folded per the flag"
Fold(s) == IF case_sensitive THEN s ELSE Lower(s)
Occurs(k) == In(Fold(k), Fold(text))
Occurring == {i \in 1..Len(keywords) : Occurs(keywords[i])}

\* C1: for a non-empty keyword list, match_all_keywords returns True if and
\* only if every keyword of the list occurs as a substring of the text
\* (both lowercased unless case_sensitive).
C1_MatchAllIffEveryKeywordOccurs ==
    (call = "match_all_keywords" /\ keywords # <<>>)
        => ret = Return(\A i \in 1..Len(keywords) : Occurs(keywords[i]))

\* C2: for a non-empty keyword list, get_match_score is exactly the number
\* of keywords of the list that occur in the text divided by the number of
\* keywords of the list.
C2_ScoreIsFractionOfKeywordsFound ==
    (call = "get_match_score" /\ keywords # <<>>)
        => /\ ret.ok
           /\ FloatEq(ret.val, Div(Cardinality(Occurring), Len(keywords)))

\* C3: for the empty keyword list and any text, the empty text included,
\* match_all_keywords and match_any_keywords return True and get_match_score
\* returns 1.0.
C3_EmptyKeywordList ==
    keywords = <<>> =>
        /\ call = "match_all_keywords" => ret = Return(TRUE)
        /\ call = "match_any_keywords" => ret = Return(TRUE)
        /\ call = "get_match_score" => ret.ok /\ FloatEq(ret.val, Float(1))

C3_Witness ==
    /\ keywords = <<>>
    /\ text = ""
    /\ call = "get_match_score"
    /\ ret = Return(Float(1))

\* C4: for the empty text and a non-empty keyword list, match_all_keywords
\* and match_any_keywords return False and get_match_score returns 0.0.
C4_EmptyText ==
    (text = "" /\ keywords # <<>>) =>
        /\ call = "match_all_keywords" => ret = Return(FALSE)
        /\ call = "match_any_keywords" => ret = Return(FALSE)
        /\ call = "get_match_score" => ret.ok /\ FloatEq(ret.val, Float(0))

C4_Witness ==
    /\ text = ""
    /\ keywords = <<"a", "b">>
    /\ call = "match_any_keywords"
    /\ ret = Return(FALSE)

\* C5: for a non-empty keyword list, match_any_keywords returns True if and
\* only if at least one keyword of the list occurs as a substring of the
\* text (case-folded per the flag).
C5_MatchAnyIffSomeKeywordOccurs ==
    (call = "match_any_keywords" /\ keywords # <<>>)
        => ret = Return(\E i \in 1..Len(keywords) : Occurs(keywords[i]))

\* C6: get_matched_keywords returns a mapping whose keys are exactly the
\* case-folded keywords that occur in the text and whose value for a key is
\* the number of positions of the text at which it occurs (at least 1),
\* overlapping occurrences counted.
C6_MatchedKeywordsAndCounts ==
    call = "get_matched_keywords" =>
        /\ ret.ok
        /\ DOMAIN ret.val = {Fold(keywords[i]) : i \in Occurring}
        /\ \A k \in DOMAIN ret.val :
              /\ ret.val[k] = Cardinality(Occurrences(k, Fold(text)))
              /\ ret.val[k] >= 1

\* C7: with case_sensitive=False every query gives the result of the
\* case-sensitive query on the lowercased keywords and lowercased text;
\* a keyword matches wherever it is a substring, also inside a longer word;
\* with case_sensitive=True a keyword that occurs in the text only in another
\* letter case does not match.
C7_CaseFolding ==
    /\ (call # "none" /\ ~case_sensitive)
          => ret = Query(call, LowerAll(keywords), Lower(text), TRUE)
    /\ (call = "match_any_keywords" /\ Len(keywords) = 1 /\ keywords[1] # "" /\ text # "")
          => ret = Return(Occurs(keywords[1]))
    /\ (call = "match_any_keywords" /\ case_sensitive /\ Len(keywords) = 1
            /\ keywords[1] # "" /\ ~In(keywords[1], text))
          => ret = Return(FALSE)

\* "ab" is found inside "Abba" when case is ignored
C7_Witness ==
    /\ ~case_sensitive
    /\ keywords = <<"ab">>
    /\ text = "Abba"
    /\ call = "match_any_keywords"
    /\ ret = Return(TRUE)

\* C8: the four queries are total: for every list of strings (with empty or
\* repeated keywords too) and every text they return a value and raise
\* nothing.
C8_QueriesAreTotal == call # "none" => ret.ok

-----------------------------------------------------------------------------
(* Properties of the classifier (checked under ClassifierSpec) *)

\* the number of distinct keywords of a list that occur in a text
DistinctOccurring(kws, t) ==
    Cardinality({Lower(kws[i]) : i \in {j \in 1..Len(kws) : In(Lower(kws[j]), t)}})

\* 3 x distinct title keywords in the lowercased title + distinct description
\* keywords in the lowercased description
CombinedScore(c) ==
    3 * DistinctOccurring(CATEGORIES[c].title_keywords, Lower(title))
    + DistinctOccurring(CATEGORIES[c].description_keywords, Lower(description))

Categories == {CategoryOrder[i] : i \in 1..Len(CategoryOrder)}

\* C9: for each category classify_job computes the combined score 3 x (number
\* of distinct title keywords of the category that occur in the lowercased
\* title) + (number of distinct description keywords that occur in the
\* lowercased description), each distinct keyword counted once, and the
\* category it returns has the maximum combined score whenever that maximum
\* is at least 1.
C9_CombinedScoreOfDistinctKeywords ==
    op = "classify_job" =>
        /\ \A c \in Categories : category_scores[c] = CombinedScore(c)
        /\ (\E c \in Categories : CombinedScore(c) >= 1)
              => \A c \in Categories : CombinedScore(c) <= CombinedScore(result.val.category)

\* the greatest score classify_job has computed
MaxScore == CHOOSE n \in {category_scores[c] : c \in Categories} :
                \A c \in Categories : category_scores[c] <= n

\* the categories that share it
Winners == {c \in Categories : category_scores[c] = MaxScore}

\* C10: when several categories share the maximum combined score and it is
\* at least 1, classify_job returns the one that comes first in the order
\* Frontend, Backend, Fullstack, DevOps, AI.
C10_FirstOfTiedCategories ==
    (op = "classify_job" /\ MaxScore >= 1) =>
        \E i \in 1..Len(CategoryOrder) :
            /\ CategoryOrder = <<"Frontend", "Backend", "Fullstack", "DevOps", "AI">>
            /\ result.val.category = CategoryOrder[i]
            /\ CategoryOrder[i] \in Winners
            /\ \A j \in 1..(i - 1) : CategoryOrder[j] \notin Winners

\* two categories tie at the top with a score of at least 1, and the earlier
\* one is returned although the later one is not Fullstack
C10_Witness ==
    /\ op = "classify_job"
    /\ MaxScore >= 1
    /\ Winners = {"Backend", "DevOps"}
    /\ result.val.category = "Backend"

\* min(x, 1.0)
CapAtOne(x) == IF FloatLt(Float(1), x) THEN Float(1) ELSE x

\* C11: if no category keyword matches (winning combined score < 1; in
\* particular when title and description are both empty) classify_job
\* returns category Fullstack with confidence exactly 0.3; otherwise it
\* returns confidence = min(winning combined score / 10.0, 1.0).
C11_DefaultOrCappedConfidence ==
    op = "classify_job" =>
        /\ result.ok
        /\ MaxScore < 1 =>
              /\ result.val.category = "Fullstack"
              /\ result.val.confidence = Div(3, 10)
        /\ MaxScore >= 1 =>
              FloatEq(result.val.confidence, CapAtOne(Div(MaxScore, 10)))
        /\ (title = "" /\ description = "") =>
              /\ MaxScore < 1
              /\ result.val.tags = <<>>

\* a posting whose winning score is 13: the confidence is capped
C11_Witness ==
    /\ op = "classify_job"
    /\ MaxScore > 10
    /\ FloatEq(result.val.confidence, Float(1))

\* C12: every ClassificationResult returned by classify_job, for any title
\* and description, has a category in {Frontend, Backend, Fullstack, DevOps,
\* AI} and a confidence in the closed interval [0, 1].
C12_CategoryAndConfidenceInRange ==
    op = "classify_job" =>
        /\ result.ok
        /\ result.val.category \in {"Frontend", "Backend", "Fullstack", "DevOps", "AI"}
        /\ ~FloatLt(result.val.confidence, Float(0))
        /\ ~FloatLt(Float(1), result.val.confidence)

\* a result at the upper end of the interval, for a category other than the
\* default
C12_Witness ==
    /\ op = "classify_job"
    /\ result.val.category = "Frontend"
    /\ result.val.confidence = Float(1)

\* the tag sequence of the call that has been applied
ReturnedTags == IF op = "extract_tags" THEN result.val ELSE result.val.tags
ReturnedTagSet == {ReturnedTags[i] : i \in 1..Len(ReturnedTags)}

\* a tag's list has a synonym that occurs in t (plain substring containment)
SynonymOccurs(item, t) == \E i \in 1..Len(item[2]) : In(item[2][i], t)

\* the tag names that have such a synonym
TagsOccurringIn(t) == {TagItems[i][1] : i \in {j \in 1..Len(TagItems) : SynonymOccurs(TagItems[j], t)}}

Reverse(l) == [i \in 1..Len(l) |-> l[Len(l) + 1 - i]]

\* the tag dictionary with the groups, the tags and the synonyms of every
\* list in the opposite order
ReversedTagItems ==
    LET items == Reverse(TagItems)
    IN [i \in 1..Len(items) |-> <<items[i][1], Reverse(items[i][2])>>]

\* the tag set is the same for the dictionary in the opposite order
SameForReversedDictionary ==
    LET found == TagLoop(ReversedTagItems, normalize_text(title \o " " \o description), <<>>)
    IN ReturnedTagSet = {found[i] : i \in 1..Len(found)}

\* C13 as stated: extract_tags(title, description) contains a canonical tag
\* name if and only if at least one synonym in that tag's list occurs in the
\* lowercased concatenation of title and description (plain substring
\* containment); the set of tags returned does not depend on the order of
\* synonyms within a list or on the order of tag groups.
C13_Original_TagIffSynonymInConcatenation ==
    op # "none" =>
        /\ ReturnedTagSet = TagsOccurringIn(Lower(title \o description))
        /\ SameForReversedDictionary

\* C13 as amended: ... occurs in the lowercased text made of the title, one
\* space and the description ...
C13_TagIffSynonymInSpaceJoinedText ==
    op # "none" =>
        /\ ReturnedTagSet = TagsOccurringIn(Lower(title \o " " \o description))
        /\ SameForReversedDictionary

\* "java" ends the title and "script" starts the description: the tag is
\* Java, and JavaScript is not found across the joint
C13_Witness ==
    /\ op = "extract_tags"
    /\ title = "Tech Lead - Java"
    /\ description = "Script automation with Bash"
    /\ result = Return(<<"Java">>)

\* C14: for every title and description, the tag sequence returned by
\* extract_tags (and carried in classify_job's result) is strictly
\* lexicographically increasing, so it is sorted and contains no duplicate
\* tag name.
C14_TagsStrictlyIncreasing ==
    op # "none" =>
        /\ \A i \in 1..(Len(ReturnedTags) - 1) : StrLess(ReturnedTags[i], ReturnedTags[i + 1])
        /\ Cardinality(ReturnedTagSet) = Len(ReturnedTags)

\* the loops find Python, Docker, Kubernetes in this order
C14_Witness ==
    /\ op = "classify_job"
    /\ title = "Senior Backend Engineer"
    /\ result.val.tags = <<"Docker", "Kubernetes", "Python">>

\* the title matches a Backend title keyword and no title keyword of another
\* category, and the description matches fewer than three description
\* keywords of any other category
BackendTitleOnly ==
    /\ DistinctOccurring(CATEGORIES["Backend"].title_keywords, Lower(title)) >= 1
    /\ \A c \in Categories \ {"Backend"} :
          /\ DistinctOccurring(CATEGORIES[c].title_keywords, Lower(title)) = 0
          /\ DistinctOccurring(CATEGORIES[c].description_keywords, Lower(description)) < 3

BackendScenario ==
    /\ title = "Senior Backend Engineer"
    /\ description = "We use Python, Docker and Kubernetes in production"

\* C15: a posting whose title matches a Backend title keyword and no title
\* keyword of another category, and whose description matches fewer than
\* three description keywords of any other category, is classified Backend;
\* in particular title 'Senior Backend Engineer' with description 'We use
\* Python, Docker and Kubernetes in production' yields category Backend and
\* tags that include Python, Docker and Kubernetes.
C15_BackendTitleWins ==
    op = "classify_job" =>
        /\ BackendTitleOnly => result.val.category = "Backend"
        /\ BackendScenario =>
              /\ BackendTitleOnly
              /\ result.val.category = "Backend"
              /\ {"Python", "Docker", "Kubernetes"} \subseteq ReturnedTagSet

\* the scenario: Backend scores 3 for the title, DevOps 2 for the description
C15_Witness ==
    /\ op = "classify_job"
    /\ BackendScenario
    /\ category_scores["Backend"] = 3
    /\ category_scores["DevOps"] = 2
    /\ result.val.category = "Backend"

-----------------------------------------------------------------------------
(* Properties of interleaved invocations (checked under ConcurrentSpec) *)

Done(i) == calls[i].pc = "done"

C19_InvocationsDoNotInterfere ==
    calls # <<>> =>
        /\ \A i \in Invocations : Done(i) => calls[i].result = calls[i].alone
        /\ dictionaries = [CATEGORIES |-> CATEGORIES, TAGS |-> TagItems]

\* a query of the matcher returns True while a call of the classifier is in
\* the middle of its loop over the categories, between two steps of it
C19_Witness ==
    /\ calls # <<>>
    /\ calls[1].fn = "match_all_keywords"
    /\ calls[2].fn = "classify_job"
    /\ Done(1)
    /\ calls[1].result = Return(TRUE)
    /\ calls[2].pc = "score"
    /\ frames[2].next = 3
    /\ frames[1].idx = 2

-----------------------------------------------------------------------------
(* Properties of the work cycle (checked under ScraperSpec) *)

\* the row carries the classification of the posting it was made from: it is
\* the row of the posting after Job.classify()
Classified(row, job) ==
    /\ row.category \in Categories
    /\ row = DropDescription(to_dict(classify(job)))

\* the rows of the file that were made from the postings of this cycle
WrittenFrom(job) ==
    {k \in 1..Len(csv.rows) : csv.rows[k] = DropDescription(to_dict(job))}

\* C17: every posting record a worker has written to the jobs CSV carries its
\* classification: its category is one of the five categories, and its tags
\* and confidence are those classify_job returns for its title and description.
C17_WrittenRowsAreClassified ==
    /\ \A k \in 1..Len(csv.rows) : csv.rows[k].category \in Categories
    /\ worker.pc = "idle" =>
           \A i \in 1..Len(search.returned) : \A k \in WrittenFrom(search.returned[i]) :
               Classified(csv.rows[k], search.returned[i])

\* Python's `k in t` after both are lowercased
ContainsFolded(t, k) == In(Lower(k), Lower(t))

\* C18: every accept/reject decision of the LinkedIn filter equals
\* match_all_keywords(keywords, description, case_sensitive=False) for the
\* keywords of the search, and every posting search_jobs returns has a
\* description that contains every keyword.
C18_FilterEqualsMatchAll ==
    /\ \A e \in evaluations :
           e.decision = match_all_keywords(e.keywords, e.job.description, FALSE)
    /\ worker.kind = "linkedin" =>
           \A i \in 1..Len(search.returned) : \A k \in 1..Len(worker.keywords) :
               ContainsFolded(search.returned[i].description, worker.keywords[k])

-----------------------------------------------------------------------------
(* Properties of the cache (checked under CacheSpec) *)

Returned(c) == clients[c].pc = "done"

\* equal postings: same normalized company, same lowercased, trimmed description
EqualJobs(a, b) ==
    /\ NormalizedCompany(a.company) = NormalizedCompany(b.company)
    /\ Strip(Lower(a.description)) = Strip(Lower(b.description))

\* a lookup of any posting equal to job would find it on the server
NextLookupFinds(job) ==
    \A j \in CacheJobs :
        EqualJobs(j, job) => hexists(redis.hashes, CompanyKey[j], DescriptionHash[j])

C25_AtMostOneCallFindsItNew ==
    \A c \in 1..Len(CacheClients) : \A d \in 1..Len(CacheClients) :
        (/\ c # d
         /\ Returned(c) /\ Returned(d)
         /\ EqualJobs(clients[c].job, clients[d].job)
         /\ clients[c].fresh /\ clients[d].fresh
         /\ clients[c].lookup_ok /\ clients[d].lookup_ok
         /\ ~clients[c].ret => clients[c].cached
         /\ ~clients[d].ret => clients[d].cached)
        => (clients[c].ret \/ clients[d].ret)

\* C26: when a Redis command of the call has failed, nothing is raised:
\* is_job_cached has answered False or cache_job has answered False, and
\* check_and_cache_job reports the posting as new.
C26_RedisFailureReportsNew ==
    \A c \in 1..Len(CacheClients) :
        (Returned(c) /\ clients[c].failed) =>
            /\ ~clients[c].raised
            /\ ~clients[c].ret
            /\ ~clients[c].lookup_ok \/ ~clients[c].cached

\* the lookup of a posting that is on the server has failed, and the call has
\* reported the posting as new
C26_Witness ==
    \E c \in 1..Len(CacheClients) :
        /\ Returned(c) /\ clients[c].failed /\ ~clients[c].lookup_ok
        /\ clients[c].was_recorded
        /\ ~clients[c].ret /\ ~clients[c].raised

\* the times to live the clients give
ClientTtls == {Expiration(0, DefaultTtl(CacheClients[c])) : c \in 1..Len(CacheClients)}

\* the company key of the job expires in one of the clients' times to live
ExpirationSet(job) ==
    \E e \in redis.hashes :
        e.key = CompanyKey[job] /\ e.volatile /\ e.ttl \in ClientTtls

\* while less than the ttl cache_job last set for a company key has passed,
\* the key is there with that much time left, and so is every posting cached
KeptUntilTtlAfterLastCaching ==
    \A l \in lastCached :
        \E e \in redis.hashes :
            /\ e.key = l.key
            /\ e.volatile /\ e.ttl = l.ttl - l.age * TickSeconds
            /\ l.postings \subseteq e.fields

-----------------------------------------------------------------------------
(* Properties of the worker lifecycle (checked under WorkerSpec) *)

\* C23: a worker has at most one live background process at any time.
C23_AtMostOneLiveProcess ==
    \A n \in DOMAIN workers : Cardinality(Alive(workers[n])) <= 1

\* C28: after stop() has returned for a running worker the stop event is set,
\* _running and is_running() are False, and the worker's process is not alive
\* any more: it has exited within the timeout or has been terminated.
C28_StoppedProcessIsGone ==
    \A n \in DOMAIN workers :
        (workers[n].pc = "idle" /\ workers[n].last = "stopped")
            => /\ workers[n].stop_event
               /\ ~workers[n].running
               /\ ~is_running(workers[n])
               /\ workers[n].process # 0 => ~is_alive(workers[n].processes[workers[n].process])

\* the step of process i of worker n is the end of a do_work that raised
Raises(n, i) ==
    /\ workers[n].processes[i].pc = "do_work"
    /\ workers'[n].processes[i].pc # "do_work"
    /\ workers'[n].processes[i].outcome = "raised"

\* C29: an Exception raised by do_work does not end the run loop: it is logged
\* and the process goes to the wait; it leaves the wait for the loop test only
\* when the interval has passed or the stop event is set, and from the test it
\* calls do_work again unless the stop event is set.  Only terminate() in a
\* stop() call ends it elsewhere.
C29_ExceptionDoesNotEndTheLoop ==
    [][\A n \in DOMAIN workers : \A i \in 1..Len(workers[n].processes) :
          LET p == workers[n].processes[i]
              q == workers'[n].processes[i]
              terminated == workers[n].pc = "join" /\ workers[n].stop_event /\ q.pc = "exited"
          IN  /\ Raises(n, i) => q.pc = "wait" /\ q.logged /\ q.waited = 0
              /\ (p.outcome = "raised" /\ p.pc = "wait" /\ q.pc # "wait")
                     => \/ q.pc = "while" /\ (workers[n].stop_event \/ p.waited = interval)
                        \/ terminated
              /\ (p.outcome = "raised" /\ p.pc = "while" /\ q.pc # "while")
                     => \/ q.pc = "do_work" /\ ~workers[n].stop_event /\ q.after_error
                        \/ q.pc = "exited" /\ workers[n].stop_event]_vars

\* do_work is running again in a cycle that follows one whose do_work raised
C29_Witness ==
    \E n \in DOMAIN workers : \E i \in 1..Len(workers[n].processes) :
        workers[n].processes[i].pc = "do_work" /\ workers[n].processes[i].after_error

\* C30: once the stop event of a worker has been set, the run loop of a process
\* of that worker starts no further do_work cycle.
C30_NoCycleOnceStopEventSet ==
    \A n \in DOMAIN workers : \A i \in 1..Len(workers[n].processes) :
        ~workers[n].processes[i].late

-----------------------------------------------------------------------------
(* Properties of the manager (checked under ManagerSpec) *)

\* C24: run() has called start() of every registered worker before it waits; it
\* goes on to stop_all only once a signal has set _shutdown_requested or an error
\* has been caught; and when run() has returned no registered worker is running:
\* is_running() is False and no process of a worker is alive.
C24_RunStopsEveryWorker ==
    /\ manager.pc # "start_all" => \A n \in DOMAIN workers : workers[n].last # "none"
    /\ manager.pc \in {"stop_all", "in_stop", "returned"}
           => manager.shutdown_requested \/ manager.error
    /\ manager.pc = "returned"
           => \A n \in DOMAIN workers : ~is_running(workers[n]) /\ Alive(workers[n]) = {}

-----------------------------------------------------------------------------
(* Properties of safe_write_csv (checked under WriterSpec) *)

Succeeded(c) == writers[c].pc = "done" /\ writers[c].ret = Return(TRUE)

\* C21: after a successful safe_write_csv call the file holds at most one row
\* per url.
C21_OneRowPerUrl ==
    (csv_file.exists /\ \E c \in 1..Len(Writers) : Succeeded(c))
        => \A i, j \in 1..Len(csv_file.rows) :
               csv_file.rows[i].url = csv_file.rows[j].url => i = j

\* the callers between the entry and the exit of `with FileLock(...)`
InLock == {c \in 1..Len(Writers) : writers[c].pc \in {"read", "write"}}

Ends(c) == writers[c].pc # "done" /\ writers'[c].pc = "done"

-----------------------------------------------------------------------------
(* Properties of search_jobs (checked under SearchSpec) *)

\* search_jobs has returned
SearchReturned == worker.pc = "save" /\ worker.search_count = 1

\* C32 as stated: search_jobs returns at most max_results postings, and the
\* empty list when an error has occurred during the search.
C32_Original_EmptyOnAnyError ==
    SearchReturned
        => /\ Len(search.returned) <= worker.max_results
           /\ search.error # "none" => search.returned = <<>>

\* C32: search_jobs returns at most max_results postings; the empty list when an
\* exception has reached the handler around the search; and after a page timeout
\* (LinkedIn) or a failed load-more (Startups) the postings collected so far,
\* trimmed to max_results.
C32_AtMostMaxResultsEmptyOnCaughtError ==
    SearchReturned
        => /\ Len(search.returned) <= worker.max_results
           /\ search.error = "exception" => search.returned = <<>>
           /\ search.error \in {"timeout", "load_more"}
                  => search.returned = SubSeq(search.all_jobs, 1, Len(search.returned))
                     /\ (Len(search.returned) < worker.max_results
                            => search.returned = search.all_jobs)

\* a search that had collected postings when an exception ended it
C32_Witness ==
    /\ SearchReturned
    /\ search.all_jobs # <<>>
    /\ search.error = "exception"

=========================================================================
